---- MODULE Spec2Model ----
(***************************************************************************)
(* Model of the Discharge pass (src/src/ir_passes/discharge.rs): the pass  *)
(* state, the visitor callbacks the walker invokes on it, and the SMT      *)
(* solver session it drives.  The solver is modelled by the commands it    *)
(* has received, scope by scope, and by a decision procedure over them.    *)
(* Two further specifications look at the time algebra on its own          *)
(* (src/src/core/fsm_idx.rs, SpecFsmIdxs) and at the generation of proof   *)
(* obligations (src/src/interval_checking/checker.rs, SpecChecker).        *)
(***************************************************************************)
EXTENDS Integers, Sequences, FiniteSets, TLC

(* ----------------------------- bounds --------------------------------- *)

\* Components visited by one run of the pass.
MaxComps == 2

\* Facts the walker presents for one component.
MaxFacts == 2

\* Nesting depth of if/loop constructs the walker descends into.
MaxDepth == 2

\* Values an integer constant takes in the models the solver searches.
ValDom == {0, 1}

\* Largest offset given to an event of a time expression.
MaxOffset == 2

\* Commands in the body of the component the interval checker goes through.
MaxCmds == 4

\* The events time expressions are built over.
EventIds == {"G", "L"}

(* ------------------------- S-expressions ------------------------------ *)

\* A symbol (easy_smt atom) named by kind, index and display name.
Sym(kind, idx, disp) ==
    [op |-> "sym", kind |-> kind, idx |-> idx, disp |-> disp, args |-> <<>>]

\* A numeral.
Num(n) == [op |-> "num", kind |-> "", idx |-> n, disp |-> "", args |-> <<>>]

\* An application (op args...).
App(op, args) == [op |-> op, kind |-> "", idx |-> 0, disp |-> "", args |-> args]

Nil == App("nil", <<>>)

\* One command sent to the solver.
Cmd(c, name, sorts, sort, body, args) ==
    [cmd |-> c, name |-> name, sorts |-> sorts, sort |-> sort,
     body |-> body, args |-> args]

DeclareFun(name, sorts, sort) == Cmd("declare-fun", name, sorts, sort, Nil, <<>>)
DeclareConst(name, sort) == Cmd("declare-const", name, <<>>, sort, Nil, <<>>)
DefineConst(name, sort, body) == Cmd("define-const", name, <<>>, sort, body, <<>>)
AssertCmd(body) == Cmd("assert", Nil, <<>>, "", body, <<>>)
CheckCmd == Cmd("check", Nil, <<>>, "", Nil, <<>>)
CheckAssuming(lits) == Cmd("check-assuming", Nil, <<>>, "", Nil, lits)
GetValue(sexps) == Cmd("get-value", Nil, <<>>, "", Nil, sexps)

(* ----------------------------- IR arena ------------------------------- *)

EParam(p) == [tag |-> "Param", op |-> "", l |-> p, r |-> 0]
EConcrete(n) == [tag |-> "Concrete", op |-> "", l |-> n, r |-> 0]
EBin(op, l, r) == [tag |-> "Bin", op |-> op, l |-> l, r |-> r]

PTrue == [tag |-> "True", op |-> "", l |-> 0, r |-> 0]
PFalse == [tag |-> "False", op |-> "", l |-> 0, r |-> 0]
PCmp(op, l, r) == [tag |-> "Cmp", op |-> op, l |-> l, r |-> r]
PTimeCmp(op, l, r) == [tag |-> "TimeCmp", op |-> op, l |-> l, r |-> r]
PNot(p) == [tag |-> "Not", op |-> "", l |-> p, r |-> 0]
PAnd(l, r) == [tag |-> "And", op |-> "", l |-> l, r |-> r]
POr(l, r) == [tag |-> "Or", op |-> "", l |-> l, r |-> r]
PImplies(l, r) == [tag |-> "Implies", op |-> "", l |-> l, r |-> r]

Fact(prop, reason, kind) == [prop |-> prop, reason |-> reason, kind |-> kind]

\* Parameters W, N; event E.
\*   e1 = W, e2 = N, e3 = 1, e4 = W + 1, e5 = 0, e6 = N + W
\*   t1 = E + 0, t2 = E + 1
\*   prop1: W >= 1       prop2: W + 1 > W     prop3: W = N + W
\*   prop4: E+1 >= E+0   prop5: prop1 => prop3
CompA ==
    [params |-> <<"W", "N">>,
     events |-> <<"E">>,
     exprs  |-> <<EParam(1), EParam(2), EConcrete(1), EBin("Add", 1, 3),
                  EConcrete(0), EBin("Add", 2, 1)>>,
     times  |-> <<[event |-> 1, offset |-> 5], [event |-> 1, offset |-> 3]>>,
     props  |-> <<PCmp("Gte", 1, 3), PCmp("Gt", 4, 1), PCmp("Eq", 1, 6),
                  PTimeCmp("Gte", 2, 1), PImplies(1, 3)>>,
     infos  |-> <<"Assert", "Assert", "Other">>,
     facts  |-> {Fact(1, 1, "Assert"), Fact(2, 1, "Assert"),
                 Fact(1, 3, "Assert"), Fact(5, 2, "Assert"),
                 Fact(4, 1, "Assume")}]

\* No parameters; event S.
\*   e1 = 0, e2 = 1, e3 = 2;  t1 = S + 0, t2 = S + 1, t3 = S + 2
\*   prop1: S+1 >= S+2 (fails)   prop2: S+2 >= S+0   prop3: true
\*   prop4: false                prop5: not prop4
CompB ==
    [params |-> <<>>,
     events |-> <<"S">>,
     exprs  |-> <<EConcrete(0), EConcrete(1), EConcrete(2)>>,
     times  |-> <<[event |-> 1, offset |-> 1], [event |-> 1, offset |-> 2],
                  [event |-> 1, offset |-> 3]>>,
     props  |-> <<PTimeCmp("Gte", 2, 3), PTimeCmp("Gte", 3, 1), PTrue, PFalse,
                  PNot(4)>>,
     infos  |-> <<"Assert", "Other">>,
     facts  |-> {Fact(1, 1, "Assert"), Fact(4, 2, "Assert"),
                 Fact(5, 1, "Assert")}]

Comps == <<CompA, CompB>>

\* consequent of a proposition: the right side of an implication, else itself.
Consequent(comp, p) ==
    IF comp.props[p].tag = "Implies" THEN comp.props[p].r ELSE p

RECURSIVE ExprParams(_, _)
\* Parameters mentioned in an expression, in order of occurrence.
ExprParams(comp, e) ==
    LET x == comp.exprs[e] IN
    CASE x.tag = "Param" -> <<x.l>>
      [] x.tag = "Concrete" -> <<>>
      [] OTHER -> ExprParams(comp, x.l) \o ExprParams(comp, x.r)

RECURSIVE PropParams(_, _)
\* Parameters mentioned in a proposition, in order of occurrence.
PropParams(comp, p) ==
    LET x == comp.props[p] IN
    CASE x.tag \in {"True", "False"} -> <<>>
      [] x.tag = "Cmp" -> ExprParams(comp, x.l) \o ExprParams(comp, x.r)
      [] x.tag = "TimeCmp" ->
            ExprParams(comp, comp.times[x.l].offset)
               \o ExprParams(comp, comp.times[x.r].offset)
      [] x.tag = "Not" -> PropParams(comp, x.l)
      [] OTHER -> PropParams(comp, x.l) \o PropParams(comp, x.r)

(* --------------------------- time algebra ----------------------------- *)
\* FsmIdxs (src/src/core/fsm_idx.rs): a LinkedHashMap<Id, u64>, kept as the
\* sequence of its entries in iteration order; no event occurs twice.

Entry(ev, st) == [ev |-> ev, st |-> st]

\* FsmIdxs::default: no entry.
Default == <<>>

\* FsmIdxs::events.
events(idxs) == {idxs[i].ev : i \in DOMAIN idxs}

\* LinkedHashMap::get of an event that is present.
Get(idxs, ev) == idxs[CHOOSE i \in DOMAIN idxs : idxs[i].ev = ev].st

\* Variant of insert: for an event already present the larger offset is
\* kept.
insert_max(idxs, name, state) ==
    LET old == {idxs[i].st : i \in {j \in DOMAIN idxs : idxs[j].ev = name}}
        new == IF \E o \in old : o > state THEN CHOOSE o \in old : TRUE
               ELSE state
    IN  Append(SelectSeq(idxs, LAMBDA en : en.ev # name), Entry(name, new))

\* FsmIdxs::insert: a new event is put last; for an event already present
\* the offset is replaced and the entry becomes the last one.
insert(idxs, name, state) ==
    Append(SelectSeq(idxs, LAMBDA en : en.ev # name), Entry(name, state))

\* FsmIdxs::unit.
unit(name, state) == insert(Default, name, state)

\* u64::cmp.
Cmp(st1, st2) ==
    IF st1 < st2 THEN "Less" ELSE IF st1 = st2 THEN "Equal" ELSE "Greater"

RECURSIVE CmpLoop(_, _, _, _)
\* The loop of partial_cmp over the entries of self from the i-th on,
\* cur_order being what the entries before it gave.
CmpLoop(self, other, i, cur_order) ==
    IF i > Len(self) THEN cur_order
    ELSE IF self[i].ev \in events(other)
    THEN LET o == Cmp(self[i].st, Get(other, self[i].ev)) IN
         IF cur_order # "None"
         THEN IF cur_order # o THEN "None"
              ELSE CmpLoop(self, other, i + 1, cur_order)
         ELSE CmpLoop(self, other, i + 1, o)
    ELSE "None"

\* partial_cmp: "None", or the ordering in Some; the length test compares
\* the length of self with itself.
partial_cmp(self, other) ==
    IF Len(self) # Len(self) THEN "None"
    ELSE CmpLoop(self, other, 1, "None")

\* The operators <= and >= PartialOrd derives from partial_cmp.
le(self, other) == partial_cmp(self, other) \in {"Less", "Equal"}

ge(self, other) == partial_cmp(self, other) \in {"Greater", "Equal"}

\* The derived ==: that of the maps, which compares the entries pairwise in
\* iteration order.
eq(self, other) ==
    /\ Len(self) = Len(other)
    /\ \A i \in DOMAIN self : self[i].ev = other[i].ev /\ self[i].st = other[i].st

\* Variant of increment: every offset grows by n + 1.
increment_from_one(idxs, n) ==
    [i \in DOMAIN idxs |-> Entry(idxs[i].ev, idxs[i].st + n + 1)]

\* FsmIdxs::increment: every offset grows by n.
increment(idxs, n) == [i \in DOMAIN idxs |-> Entry(idxs[i].ev, idxs[i].st + n)]

RECURSIVE ExtendReversed(_, _)
\* Variant of Extend: the entries are inserted from the last to the first.
ExtendReversed(out, idxs) ==
    IF idxs = <<>> THEN out
    ELSE ExtendReversed(insert(out, idxs[Len(idxs)].ev, idxs[Len(idxs)].st),
                        SubSeq(idxs, 1, Len(idxs) - 1))

RECURSIVE Extend(_, _)
\* LinkedHashMap::extend: the entries are inserted one after the other.
Extend(out, idxs) ==
    IF idxs = <<>> THEN out
    ELSE Extend(insert(out, Head(idxs).ev, Head(idxs).st), Tail(idxs))

\* Has every event of the expression a binding?  (resolve panics with
\* "No binding for" otherwise.)
Resolvable(idxs, bindings) == events(idxs) \subseteq DOMAIN bindings

RECURSIVE ResolveLoop(_, _, _, _)
ResolveLoop(self, bindings, i, out) ==
    IF i > Len(self) THEN out
    ELSE ResolveLoop(self, bindings, i + 1,
            Extend(out, increment(bindings[self[i].ev], self[i].st)))

\* TimeRep::resolve for FsmIdxs.
resolve(self, bindings) == ResolveLoop(self, bindings, 1, Default)

(* ------------------------ intervals and ports ------------------------- *)

\* A range {start, end} of time expressions; an interval pairs an optional
\* exact range with a within range.
Range(start, end) == [some |-> TRUE, start |-> start, end |-> end]

NoRange == [some |-> FALSE, start |-> Default, end |-> Default]

Interval(exact, within) == [exact |-> exact, within |-> within]

\* Has every time expression of the interval its bindings?
IntervalResolvable(iv, bindings) ==
    \A t \in {iv.exact.start, iv.exact.end, iv.within.start, iv.within.end} :
        Resolvable(t, bindings)

\* resolve on a range and on an interval: that of each time expression.
RangeResolve(r, bindings) ==
    IF r.some THEN Range(resolve(r.start, bindings), resolve(r.end, bindings))
    ELSE NoRange

IntervalResolve(iv, bindings) ==
    Interval(RangeResolve(iv.exact, bindings), RangeResolve(iv.within, bindings))

\* FsmIdxs::as_unit: the only entry of the expression, or None; an Option is
\* kept as the sequence of at most one value.
as_unit(idxs) == IF Len(idxs) = 1 THEN <<idxs[1]>> ELSE <<>>

\* Variant of as_offset: the events of the two ends are not compared.
as_offset_any_event(r) ==
    LET s == as_unit(r.start)
        e == as_unit(r.end)
    IN  IF s # <<>> /\ e # <<>>
        THEN <<[ev |-> s[1].ev, s |-> s[1].st, t |-> e[1].st]>>
        ELSE <<>>

\* Range::as_offset: (event, start, end) when both ends are units of one
\* event.
as_offset(r) ==
    LET s == as_unit(r.start)
        e == as_unit(r.end)
    IN  IF s # <<>> /\ e # <<>> /\ s[1].ev = e[1].ev
        THEN <<[ev |-> s[1].ev, s |-> s[1].st, t |-> e[1].st]>>
        ELSE <<>>

\* Interval::as_exact_offset: as_offset of the exact range, if there is one.
as_exact_offset(iv) == IF iv.exact.some THEN as_offset(iv.exact) ELSE <<>>

\* A constraint between two time expressions, and its resolve.
Constraint(left, right) == [left |-> left, right |-> right]

ConstraintResolve(con, bindings) ==
    Constraint(resolve(con.left, bindings), resolve(con.right, bindings))

\* core::Port, the three ways a port is referred to.
ThisPort(name) == [tag |-> "ThisPort", comp |-> "", name |-> name]
CompPort(comp, name) == [tag |-> "CompPort", comp |-> comp, name |-> name]
Constant(n) == [tag |-> "Constant", comp |-> "", name |-> ""]

\* PortDef (the bitwidth plays no part) and Signature.
PortDef(name, liveness) == [name |-> name, liveness |-> liveness]

Signature(abstract_vars, inputs, outputs, constraints) ==
    [abstract_vars |-> abstract_vars, inputs |-> inputs, outputs |-> outputs,
     constraints |-> constraints]

\* Signature::reversed: inputs and outputs swapped.
reversed(sig) == [sig EXCEPT !.inputs = sig.outputs, !.outputs = sig.inputs]

\* The facts the checker hands to the prover.
SubsetFact(requirement, guarantee) ==
    [tag |-> "Subset", req |-> requirement, guar |-> guarantee,
     con |-> Constraint(Default, Default)]

ConstraintFact(con) ==
    [tag |-> "Constraint", req |-> Interval(NoRange, NoRange),
     guar |-> Interval(NoRange, NoRange), con |-> con]

(* -------------------------- interval checker -------------------------- *)
\* src/src/interval_checking/checker.rs, with the Context and ConcreteInvoke
\* it works on.

THIS == "_this"

\* A Result: Ok(val) or Err.
Ok(val) == [ok |-> TRUE, val |-> val]
Err == [ok |-> FALSE, val |-> Interval(NoRange, NoRange)]

\* formals.zip(actuals).collect(): the formal abstract variables bound to
\* the actual ones by position, as far as both go.
Zip(formals, actuals) ==
    LET len == IF Len(formals) <= Len(actuals) THEN Len(formals)
               ELSE Len(actuals) IN
    [v \in {formals[i] : i \in 1..len} |->
        actuals[CHOOSE i \in 1..len : formals[i] = v]]

\* ConcreteInvoke::from_signature: the signature under the binding of its
\* abstract variables.
from_signature(sig, abstract_vars) ==
    [sig |-> sig, binding |-> Zip(sig.abstract_vars, abstract_vars)]

\* ConcreteInvoke::this_instance: the signature with its own variables.
this_instance(sig) ==
    [sig |-> sig,
     binding |-> [v \in {sig.abstract_vars[i] : i \in DOMAIN sig.abstract_vars}
                    |-> unit(v, 0)]]

\* The liveness of the port of that name among ports, resolved.
PortLiveness(ports, name, binding) ==
    IF \E i \in DOMAIN ports : ports[i].name = name
    THEN Ok(IntervalResolve(
            ports[CHOOSE i \in DOMAIN ports : ports[i].name = name].liveness,
            binding))
    ELSE Err

\* ConcreteInvoke::port_requirements: of an input of the instance.
port_requirements(inv, name) == PortLiveness(inv.sig.inputs, name, inv.binding)

\* ConcreteInvoke::port_guarantees: of an output of the instance.
port_guarantees(inv, name) == PortLiveness(inv.sig.outputs, name, inv.binding)

\* Context::add_obligation.
add_obligation(obls, fact, pos) == Append(obls, [fact |-> fact, pos |-> pos])

\* ctx.get_invoke(name)?.port_requirements(port)?
Requirement(c, name, port) ==
    IF name \in DOMAIN c.invocations
    THEN port_requirements(c.invocations[name], port) ELSE Err

\* ctx.get_invoke(name)?.port_guarantees(port)?
Guarantee(c, name, port) ==
    IF name \in DOMAIN c.invocations
    THEN port_guarantees(c.invocations[name], port) ELSE Err

\* The instance a port reference is resolved against.
Owner(port) == IF port.tag = "ThisPort" THEN THIS ELSE port.comp

\* Variant of check_connect: a constant source gets an obligation too.
check_connect_constant(con, c) ==
    IF con.dst.tag = "Constant" THEN [status |-> "panic: todo", ctx |-> c]
    ELSE LET requirement == Requirement(c, Owner(con.dst), con.dst.name) IN
    IF ~requirement.ok THEN [status |-> "error", ctx |-> c]
    ELSE LET guarantee == IF con.src.tag = "Constant"
                          THEN Ok(Interval(NoRange, NoRange))
                          ELSE Guarantee(c, Owner(con.src), con.src.name) IN
         IF ~guarantee.ok THEN [status |-> "error", ctx |-> c]
         ELSE [status |-> "ok",
               ctx |-> [c EXCEPT !.obligations = add_obligation(@,
                          SubsetFact(requirement.val, guarantee.val), con.pos)]]

\* check_connect: the context after it, and how it returned.
check_connect(con, c) ==
    IF con.dst.tag = "Constant" THEN [status |-> "panic: todo", ctx |-> c]
    ELSE LET requirement == Requirement(c, Owner(con.dst), con.dst.name) IN
    IF ~requirement.ok THEN [status |-> "error", ctx |-> c]
    ELSE IF con.src.tag = "Constant" THEN [status |-> "ok", ctx |-> c]
    ELSE LET guarantee == Guarantee(c, Owner(con.src), con.src.name) IN
         IF ~guarantee.ok THEN [status |-> "error", ctx |-> c]
         ELSE [status |-> "ok",
               ctx |-> [c EXCEPT !.obligations = add_obligation(@,
                          SubsetFact(requirement.val, guarantee.val), con.pos)]]

RECURSIVE ConstraintLoop(_, _, _, _, _)
\* check_invocation, the requirements on abstract variables: one obligation
\* per constraint of the signature, from the i-th on.
ConstraintLoop(constraints, binding, pos, i, obls) ==
    IF i > Len(constraints) THEN [status |-> "ok", obligations |-> obls]
    ELSE IF ~(Resolvable(constraints[i].left, binding)
                 /\ Resolvable(constraints[i].right, binding))
    THEN [status |-> "panic: No binding", obligations |-> obls]
    ELSE ConstraintLoop(constraints, binding, pos, i + 1,
            add_obligation(obls,
                ConstraintFact(ConstraintResolve(constraints[i], binding)), pos))

RECURSIVE PortLoop(_, _, _, _, _, _, _)
\* check_invocation, the requirements on input ports: the actual and the
\* formal ports taken in pairs, from the i-th pair on.
PortLoop(ports, inputs, binding, c, pos, i, obls) ==
    IF i > Len(ports) \/ i > Len(inputs)
    THEN [status |-> "ok", obligations |-> obls]
    ELSE IF ~IntervalResolvable(inputs[i].liveness, binding)
    THEN [status |-> "panic: No binding", obligations |-> obls]
    ELSE LET requirement == IntervalResolve(inputs[i].liveness, binding)
             actual == ports[i] IN
         IF actual.tag = "Constant"
         THEN PortLoop(ports, inputs, binding, c, pos, i + 1, obls)
         ELSE LET guarantee == Guarantee(c, Owner(actual), actual.name) IN
              IF ~guarantee.ok THEN [status |-> "error", obligations |-> obls]
              ELSE PortLoop(ports, inputs, binding, c, pos, i + 1,
                      add_obligation(obls,
                          SubsetFact(requirement, guarantee.val), pos))

\* check_invocation: how it returned, the context after it and the instance.
check_invocation(invoke, c) ==
    IF invoke.comp \notin DOMAIN c.instances
    THEN [status |-> "error", ctx |-> c, instance |-> this_instance(
              Signature(<<>>, <<>>, <<>>, <<>>))]
    ELSE LET sig == c.instances[invoke.comp]
             instance == from_signature(sig, invoke.abstract_vars)
             req_binding == Zip(sig.abstract_vars, invoke.abstract_vars)
             r1 == ConstraintLoop(sig.constraints, req_binding, invoke.pos, 1,
                                  c.obligations)
             r2 == IF r1.status = "ok"
                   THEN PortLoop(invoke.ports, sig.inputs, req_binding, c,
                                 invoke.pos, 1, r1.obligations)
                   ELSE r1
         IN  [status |-> r2.status,
              ctx |-> [c EXCEPT !.obligations = r2.obligations],
              instance |-> instance]

\* Context::add_invocation of a name not bound yet.
add_invocation(c, bind, instance) ==
    [c EXCEPT !.invocations = (bind :> instance) @@ @]

\* Variant of check_invoke: the invocation is bound before it is checked.
check_invoke_bound_first(assign, c) ==
    LET r == check_invocation(assign,
                add_invocation(c, assign.bind,
                    from_signature(
                        IF assign.comp \in DOMAIN c.instances
                        THEN c.instances[assign.comp]
                        ELSE Signature(<<>>, <<>>, <<>>, <<>>),
                        assign.abstract_vars)))
    IN  [status |-> r.status,
         ctx |-> IF r.status = "ok" THEN r.ctx
                 ELSE [r.ctx EXCEPT !.invocations = c.invocations]]

\* check_invoke: check_invocation, then the binding of the instance.
check_invoke(assign, c) ==
    LET r == check_invocation(assign, c) IN
    [status |-> r.status,
     ctx |-> IF r.status = "ok" THEN add_invocation(r.ctx, assign.bind, r.instance)
             ELSE r.ctx]

\* Context::add_instance of a name not bound yet.
add_instance(c, name, component) ==
    IF component \in DOMAIN c.sigs
    THEN [status |-> "ok",
          ctx |-> [c EXCEPT !.instances = (name :> c.sigs[component]) @@ @]]
    ELSE [status |-> "error", ctx |-> c]

(* ------------------------- a program to check ------------------------- *)

\* [ev+s, ev+e]
Live(ev_s, s, ev_e, e) == Interval(NoRange, Range(unit(ev_s, s), unit(ev_e, e)))

\* component Main<G>(a: [G, G+1]) -> (o: [G+1, G+2]) where G+1 > G
MainSig ==
    Signature(<<"G">>,
              <<PortDef("a", Live("G", 0, "G", 1))>>,
              <<PortDef("o", Live("G", 1, "G", 2))>>,
              <<Constraint(unit("G", 1), unit("G", 0))>>)

\* component Sub<T, U>(p: [T, T+1], q: [U, U+1]) -> (out: [T+1, U+2])
\*    where U >= T, T+1 > T
SubSig ==
    Signature(<<"T", "U">>,
              <<PortDef("p", Live("T", 0, "T", 1)),
                PortDef("q", Live("U", 0, "U", 1))>>,
              <<PortDef("out", Live("T", 1, "U", 2))>>,
              <<Constraint(unit("U", 0), unit("T", 0)),
                Constraint(unit("T", 1), unit("T", 0))>>)

Sigs == ("Sub" :> SubSig)

\* The commands of a body; pos is the position in the source.
Command(kind, name, comp, abstract_vars, ports, dst, src, pos) ==
    [kind |-> kind, bind |-> name, comp |-> comp,
     abstract_vars |-> abstract_vars, ports |-> ports, dst |-> dst,
     src |-> src, pos |-> pos]

NoPort == Constant(0)

\*  1: I := new Sub
\*  2: x0 := I<G, G+1>(a, 1)
\*  3: x1 := I<G+1, G+2>(x0.out, a)
\*  4: x2 := I<G, G>(a, x2.out)
\*  5: x3 := I<G>(a, a)
\*  6: o = x0.out     7: o = a     8: o = 7     9: x0.p = a     10: 1 = a
Commands ==
    {Command("Instance", "I", "Sub", <<>>, <<>>, NoPort, NoPort, 1),
     Command("Invoke", "x0", "I", <<unit("G", 0), unit("G", 1)>>,
             <<ThisPort("a"), Constant(1)>>, NoPort, NoPort, 2),
     Command("Invoke", "x1", "I", <<unit("G", 1), unit("G", 2)>>,
             <<CompPort("x0", "out"), ThisPort("a")>>, NoPort, NoPort, 3),
     Command("Invoke", "x2", "I", <<unit("G", 0), unit("G", 0)>>,
             <<ThisPort("a"), CompPort("x2", "out")>>, NoPort, NoPort, 4),
     Command("Invoke", "x3", "I", <<unit("G", 0)>>,
             <<ThisPort("a"), ThisPort("a")>>, NoPort, NoPort, 5),
     Command("Connect", "", "", <<>>, <<>>,
             ThisPort("o"), CompPort("x0", "out"), 6),
     Command("Connect", "", "", <<>>, <<>>, ThisPort("o"), ThisPort("a"), 7),
     Command("Connect", "", "", <<>>, <<>>, ThisPort("o"), Constant(7), 8),
     Command("Connect", "", "", <<>>, <<>>,
             CompPort("x0", "p"), ThisPort("a"), 9),
     Command("Connect", "", "", <<>>, <<>>, Constant(1), ThisPort("a"), 10)}

(* ----------------------------- state ---------------------------------- *)

VARIABLES
    sol,            \* solver session: stack of scopes, each the commands sent in it
    sol_base,       \* "Z3" or "CVC5"
    scoped,         \* are we in a scoped context?
    func_map,       \* defined functions
    param_map, ev_map, expr_map, time_map, prop_map,
    checked,        \* PropIdx -> Option<Assign>
    act_lit_count,
    show_models,
    to_prove,
    diagnostics,
    error_count,
    pc,             \* position of the walker that drives the pass
    comp,           \* index in Comps of the component being visited (0: none)
    visited,        \* number of components handed to the pass so far
    stack,          \* frames of the do_if / do_loop calls in progress
    pending,        \* failing_props: facts taken from to_prove, not yet checked
    presented,      \* facts the walker presented since the last clear_data
    emitted,        \* diagnostics written to stderr by the current end
    bulk,           \* answer to the bulk check of the current end ("none": not asked)
    ret,            \* value returned by after_traversal
    stderr_count,   \* diagnostics written to stderr since construction
    errors_before,  \* error_count when the visit of the component began
    scopes_closed,  \* has a do_if / do_loop returned since the last clear_data?
    lhs, rhs,       \* two time expressions (FsmIdxs)
    ord,            \* what the last comparison of lhs and rhs gave
    last_op,        \* the last operation on them: its arguments and its result
    ctx,            \* the Context of the interval checker
    cpc,            \* position of check_commands, or how it ended
    ncmds,          \* commands of the body gone through
    last            \* the last command, the context before it, how it returned

passVars == <<sol_base, scoped, func_map, param_map, ev_map, expr_map, time_map,
              prop_map, checked, act_lit_count, show_models, to_prove,
              diagnostics, error_count>>
walkVars == <<pc, comp, visited, stack, pending, presented, emitted, bulk, ret>>
dischargeVars ==
       <<sol, sol_base, scoped, func_map, param_map, ev_map, expr_map,
          time_map, prop_map, checked, act_lit_count, show_models, to_prove,
          diagnostics, error_count, pc, comp, visited, stack, pending,
          presented, emitted, bulk, ret, stderr_count, errors_before,
          scopes_closed>>
fsmVars == <<lhs, rhs, ord, last_op>>
checkerVars == <<ctx, cpc, ncmds, last>>
vars == <<dischargeVars, fsmVars, checkerVars>>

(* ------------------------ solver session ------------------------------ *)

\* push: open a new scope.
Push(s) == Append(s, <<>>)

\* pop: drop the innermost scope with everything sent in it.
Pop(s) == SubSeq(s, 1, Len(s) - 1)

\* Send commands: they are recorded in the innermost scope.
Send(s, cmds) == [s EXCEPT ![Len(s)] = @ \o cmds]

\* Number of scopes opened by push and not yet popped.
Depth(s) == Len(s) - 1

RECURSIVE Flatten(_)
Flatten(s) == IF s = <<>> THEN <<>> ELSE Head(s) \o Flatten(Tail(s))

\* Commands of kind c the solver has in scope.
InScope(s, c) == LET all == Flatten(s) IN
    {all[i] : i \in {j \in DOMAIN all : all[j].cmd = c}}

IntConsts(s) == {d.name : d \in {x \in InScope(s, "declare-fun") :
                                     x.sorts = <<>> /\ x.sort = "Int"}}
BoolConsts(s) == {d.name : d \in {x \in InScope(s, "declare-const") :
                                     x.sort = "Bool"}}

\* The body each define-const in scope gives its name.
Defs(s) ==
    LET ds == InScope(s, "define-const") IN
    [n \in {d.name : d \in ds} |-> (CHOOSE d \in ds : d.name = n).body]

RECURSIVE EvalI(_, _, _)
\* Value of an integer term under the interpretation w of the declared
\* constants (div and mod, which no component here uses, are left out).
EvalI(defs, t, w) ==
    CASE t.op = "num" -> t.idx
      [] t.op = "sym" -> IF t \in DOMAIN w THEN w[t] ELSE EvalI(defs, defs[t], w)
      [] t.op = "+" -> EvalI(defs, t.args[1], w) + EvalI(defs, t.args[2], w)
      [] t.op = "-" -> EvalI(defs, t.args[1], w) - EvalI(defs, t.args[2], w)
      [] t.op = "*" -> EvalI(defs, t.args[1], w) * EvalI(defs, t.args[2], w)

RECURSIVE EvalB(_, _, _, _)
\* Value of a boolean term under w and the interpretation b of the declared
\* boolean constants.
EvalB(defs, t, w, b) ==
    CASE t.op = "true" -> TRUE
      [] t.op = "false" -> FALSE
      [] t.op = "sym" -> IF t \in DOMAIN b THEN b[t] ELSE EvalB(defs, defs[t], w, b)
      [] t.op = ">" -> EvalI(defs, t.args[1], w) > EvalI(defs, t.args[2], w)
      [] t.op = ">=" -> EvalI(defs, t.args[1], w) >= EvalI(defs, t.args[2], w)
      [] t.op = "=" -> EvalI(defs, t.args[1], w) = EvalI(defs, t.args[2], w)
      [] t.op = "not" -> ~EvalB(defs, t.args[1], w, b)
      [] t.op = "and" -> \A i \in DOMAIN t.args : EvalB(defs, t.args[i], w, b)
      [] t.op = "or" -> \E i \in DOMAIN t.args : EvalB(defs, t.args[i], w, b)
      [] t.op = "=>" -> EvalB(defs, t.args[1], w, b) => EvalB(defs, t.args[2], w, b)

\* Interpretations of the integer constants that satisfy every assertion in
\* scope together with the assumed literals, for some interpretation of the
\* boolean constants.
Models(s, assumed) ==
    LET asserts == InScope(s, "assert")
        defs == Defs(s)
        bools == [BoolConsts(s) -> BOOLEAN] IN
    {w \in [IntConsts(s) -> ValDom] :
        \E b \in bools :
            /\ \A a \in asserts : EvalB(defs, a.body, w, b)
            /\ \A i \in DOMAIN assumed : EvalB(defs, assumed[i], w, b)}

\* Answers the solver may give to check / check-assuming: the right one, or
\* unknown when it gives up.
Responses(s, assumed) ==
    {IF Models(s, assumed) # {} THEN "sat" ELSE "unsat", "unknown"}

(* --------------------------- naming ----------------------------------- *)

fmt_param(base, param, c) ==
    IF base = "CVC5" THEN Sym("param", param, "")
    ELSE Sym("param", param, c.params[param])

fmt_event(base, event, c) ==
    IF base = "CVC5" THEN Sym("event", event, "")
    ELSE Sym("event", event, c.events[event])

fmt_expr(expr) == Sym("e", expr, "")

fmt_prop(prop) == Sym("prop", prop, "")

fmt_time(time) == Sym("t", time, "")

\* define_funcs: the primitive functions, declared at session open.
FuncDecls ==
    <<DeclareFun(Sym("pow2", 0, ""), <<"Int">>, "Int"),
      DeclareFun(Sym("log2", 0, ""), <<"Int">>, "Int"),
      DeclareFun(Sym("sinb", 0, ""), <<"Int", "Int">>, "Int"),
      DeclareFun(Sym("cosb", 0, ""), <<"Int", "Int">>, "Int")>>

FuncMap ==
    [f \in {"Pow2", "Log2", "SinB", "CosB"} |->
        CASE f = "Pow2" -> Sym("pow2", 0, "")
          [] f = "Log2" -> Sym("log2", 0, "")
          [] f = "SinB" -> Sym("sinb", 0, "")
          [] f = "CosB" -> Sym("cosb", 0, "")]

(* ---------------------- lowering to S-expressions --------------------- *)

BinOp(op) ==
    CASE op = "Add" -> "+"
      [] op = "Sub" -> "-"
      [] op = "Mul" -> "*"
      [] op = "Div" -> "div"
      [] op = "Mod" -> "mod"

CmpOp(op) ==
    CASE op = "Gt" -> ">"
      [] op = "Gte" -> ">="
      [] op = "Eq" -> "="

\* expr_to_sexp, given the parameter and expression maps filled so far.
expr_to_sexp(expr, pm, em) ==
    CASE expr.tag = "Param" -> pm[expr.l]
      [] expr.tag = "Concrete" -> Num(expr.l)
      [] expr.tag = "Bin" -> App(BinOp(expr.op), <<em[expr.l], em[expr.r]>>)

\* cmp_to_sexp over already translated operands.
cmp_to_sexp(op, l, r) == App(CmpOp(op), <<l, r>>)

\* prop_to_sexp, given the expression, time and proposition maps filled so far.
prop_to_sexp(prop, em, tm, prm) ==
    CASE prop.tag = "True" -> App("true", <<>>)
      [] prop.tag = "False" -> App("false", <<>>)
      [] prop.tag = "Cmp" -> cmp_to_sexp(prop.op, em[prop.l], em[prop.r])
      [] prop.tag = "TimeCmp" -> cmp_to_sexp(prop.op, tm[prop.l], tm[prop.r])
      [] prop.tag = "Not" -> App("not", <<prm[prop.l]>>)
      [] prop.tag = "And" -> App("and", <<prm[prop.l], prm[prop.r]>>)
      [] prop.tag = "Or" -> App("or", <<prm[prop.l], prm[prop.r]>>)
      [] prop.tag = "Implies" -> App("=>", <<prm[prop.l], prm[prop.r]>>)

RECURSIVE DeclareParams(_, _, _, _)
DeclareParams(c, base, i, acc) ==
    IF i > Len(c.params) THEN acc
    ELSE LET sexp == fmt_param(base, i, c) IN
         DeclareParams(c, base, i + 1,
            [acc EXCEPT !.param_map = Append(@, sexp),
                        !.cmds = Append(@, DeclareFun(sexp, <<>>, "Int"))])

RECURSIVE DeclareEvents(_, _, _, _)
DeclareEvents(c, base, i, acc) ==
    IF i > Len(c.events) THEN acc
    ELSE LET sexp == fmt_event(base, i, c) IN
         DeclareEvents(c, base, i + 1,
            [acc EXCEPT !.ev_map = Append(@, sexp),
                        !.cmds = Append(@, DeclareFun(sexp, <<>>, "Int"))])

RECURSIVE DeclareExprs(_, _, _)
DeclareExprs(c, i, acc) ==
    IF i > Len(c.exprs) THEN acc
    ELSE LET assign == expr_to_sexp(c.exprs[i], acc.param_map, acc.expr_map)
             sexp == fmt_expr(i) IN
         DeclareExprs(c, i + 1,
            [acc EXCEPT !.expr_map = Append(@, sexp),
                        !.cmds = Append(@, DefineConst(sexp, "Int", assign))])

RECURSIVE DeclareTimes(_, _, _)
DeclareTimes(c, i, acc) ==
    IF i > Len(c.times) THEN acc
    ELSE LET assign == App("+", <<acc.ev_map[c.times[i].event],
                                  acc.expr_map[c.times[i].offset]>>)
             sexp == fmt_time(i) IN
         DeclareTimes(c, i + 1,
            [acc EXCEPT !.time_map = Append(@, sexp),
                        !.cmds = Append(@, DefineConst(sexp, "Int", assign))])

RECURSIVE DeclareProps(_, _, _)
DeclareProps(c, i, acc) ==
    IF i > Len(c.props) THEN acc
    ELSE LET assign == prop_to_sexp(c.props[i], acc.expr_map, acc.time_map,
                                    acc.prop_map)
             sexp == fmt_prop(i) IN
         DeclareProps(c, i + 1,
            [acc EXCEPT !.prop_map = Append(@, sexp),
                        !.cmds = Append(@, DefineConst(sexp, "Bool", assign))])

\* Variant of StartDecls: the events are declared before the parameters.
StartDeclsEventsFirst(c, base) ==
    LET a0 == [param_map |-> <<>>, ev_map |-> <<>>, expr_map |-> <<>>,
               time_map |-> <<>>, prop_map |-> <<>>, cmds |-> <<>>]
        a1 == DeclareEvents(c, base, 1, a0)
        a2 == DeclareParams(c, base, 1, a1)
        a3 == DeclareExprs(c, 1, a2)
        a4 == DeclareTimes(c, 1, a3)
    IN  DeclareProps(c, 1, a4)

\* The maps and the commands start produces for component c.
StartDecls(c, base) ==
    LET a0 == [param_map |-> <<>>, ev_map |-> <<>>, expr_map |-> <<>>,
               time_map |-> <<>>, prop_map |-> <<>>, cmds |-> <<>>]
        a1 == DeclareParams(c, base, 1, a0)
        a2 == DeclareEvents(c, base, 1, a1)
        a3 == DeclareExprs(c, 1, a2)
        a4 == DeclareTimes(c, 1, a3)
    IN  DeclareProps(c, 1, a4)

(* --------------------- construction and reset ------------------------- *)

\* No comparison was made.
NoOrd == [called |-> FALSE, ab |-> "None", ba |-> "None", le_ab |-> FALSE,
          le_ba |-> FALSE, ge_ab |-> FALSE, eq |-> FALSE]

\* An operation on the time expressions: the receiver, the arguments and
\* what it returned.
Op(name, self, ev, m, n, bindings, iv, res) ==
    [name |-> name, self |-> self, ev |-> ev, m |-> m, n |-> n,
     bindings |-> bindings, iv |-> iv, res |-> res]

NoOp == Op("none", Default, "", 0, 0, <<>>, Interval(NoRange, NoRange), Default)

\* The time expressions while the pass is looked at: none is built.
FsmIdle == lhs = Default /\ rhs = Default /\ ord = NoOrd /\ last_op = NoOp

\* Context::from(sigs): nothing bound, nothing to prove.
ContextFrom(sigs) ==
    [sigs |-> sigs, instances |-> <<>>, invocations |-> <<>>,
     obligations |-> <<>>, facts |-> <<>>]

NoLast ==
    [cmd |-> Command("none", "", "", <<>>, <<>>, NoPort, NoPort, 0),
     before |-> ContextFrom(<<>>), status |-> "none"]

\* The interval checker while something else is looked at: not called.
CheckerIdle ==
    /\ ctx = ContextFrom(<<>>)
    /\ cpc = "idle"
    /\ ncmds = 0
    /\ last = NoLast

\* Construct::from: define_funcs, then one push.
Init ==
    /\ sol = Push(<<FuncDecls>>)
    /\ sol_base \in {"Z3", "CVC5"}
    /\ scoped = FALSE
    /\ error_count = 0
    /\ act_lit_count = 0
    /\ to_prove = <<>>
    /\ show_models \in BOOLEAN
    /\ func_map = FuncMap
    /\ param_map = <<>>
    /\ prop_map = <<>>
    /\ time_map = <<>>
    /\ ev_map = <<>>
    /\ expr_map = <<>>
    /\ checked = <<>>
    /\ diagnostics = <<>>
    /\ pc = "constructed"
    /\ comp = 0
    /\ visited = 0
    /\ stack = <<>>
    /\ pending = <<>>
    /\ presented = <<>>
    /\ emitted = <<>>
    /\ bulk = "none"
    /\ ret = [called |-> FALSE, some |-> FALSE, val |-> 0]
    /\ stderr_count = 0
    /\ errors_before = 0
    /\ scopes_closed = FALSE
    /\ FsmIdle
    /\ CheckerIdle

\* Variant of ResetScope: the old context is not popped.
ResetScopeNoPop(s) == Push(s)

\* The solver side of clear_data: a new solver context.
ResetScope(s) == Push(Pop(s))

\* Variant of Clear: the collection keeps its content.
ClearSkipped(m) == m

\* clear() on a map or vector: nothing is left in it.
Clear(m) == <<>>

\* clear_data, called by the walker before it visits the next component.
ClearData ==
    /\ UNCHANGED <<fsmVars, checkerVars>>
    /\ pc \in {"constructed", "ended"}
    /\ visited < MaxComps
    /\ \E c \in DOMAIN Comps : comp' = c
    /\ visited' = visited + 1
    /\ param_map' = Clear(param_map)
    /\ prop_map' = Clear(prop_map)
    /\ time_map' = Clear(time_map)
    /\ ev_map' = Clear(ev_map)
    /\ expr_map' = Clear(expr_map)
    /\ checked' = Clear(checked)
    /\ diagnostics' = Clear(diagnostics)
    /\ act_lit_count' = 0
    /\ to_prove' = Clear(to_prove)
    /\ sol' = ResetScope(sol)
    /\ pc' = "cleared"
    /\ presented' = <<>>
    /\ emitted' = <<>>
    /\ bulk' = "none"
    /\ errors_before' = error_count
    /\ scopes_closed' = FALSE
    /\ UNCHANGED stderr_count
    /\ UNCHANGED <<sol_base, scoped, func_map, show_models, error_count,
                   stack, pending, ret>>

\* start: declare all parameters, events, expressions, times, propositions.
Start ==
    /\ UNCHANGED <<fsmVars, checkerVars>>
    /\ UNCHANGED <<stderr_count, errors_before, scopes_closed>>
    /\ pc = "cleared"
    /\ LET d == StartDecls(Comps[comp], sol_base) IN
        /\ sol' = Send(sol, d.cmds)
        /\ param_map' = d.param_map
        /\ ev_map' = d.ev_map
        /\ expr_map' = d.expr_map
        /\ time_map' = d.time_map
        /\ prop_map' = d.prop_map
    /\ pc' = "visiting"
    /\ UNCHANGED <<sol_base, scoped, func_map, checked, act_lit_count,
                   show_models, to_prove, diagnostics, error_count, comp,
                   visited, stack, pending, presented, emitted, bulk, ret>>

(* ------------------------ command callbacks --------------------------- *)

PanicStates == {"panic: scoped facts", "panic: assumptions",
                "panic: unbalanced scopes", "panic: solver returned unknown"}

\* Variant of FactOutcome: assumptions are collected like assertions.
FactOutcomeKeepAssume(sc, f, tp) ==
    IF sc THEN [pc |-> "panic: scoped facts", to_prove |-> tp]
    ELSE [pc |-> "visiting", to_prove |-> Append(tp, f)]

\* Where the fact callback leaves the walker, and the list of obligations.
FactOutcome(sc, f, tp) ==
    IF sc THEN [pc |-> "panic: scoped facts", to_prove |-> tp]
    ELSE IF f.kind = "Assume" THEN [pc |-> "panic: assumptions", to_prove |-> tp]
    ELSE [pc |-> "visiting", to_prove |-> Append(tp, f)]

\* fact: the walker presents one fact of the component, at any nesting depth.
FactCb ==
    /\ UNCHANGED <<fsmVars, checkerVars>>
    /\ UNCHANGED <<stderr_count, errors_before, scopes_closed>>
    /\ pc = "visiting"
    /\ Len(presented) < MaxFacts
    /\ \E f \in Comps[comp].facts :
        LET o == FactOutcome(scoped, f, to_prove) IN
        /\ pc' = o.pc
        /\ to_prove' = o.to_prove
        /\ presented' = Append(presented, [fact |-> f, depth |-> Len(stack)])
    /\ UNCHANGED <<sol, sol_base, scoped, func_map, param_map, ev_map,
                   expr_map, time_map, prop_map, checked, act_lit_count,
                   show_models, diagnostics, error_count, comp, visited,
                   stack, pending, emitted, bulk, ret>>

\* do_if, up to the visit of its branches: save scoped, set it.
DoIf ==
    /\ UNCHANGED <<fsmVars, checkerVars>>
    /\ UNCHANGED <<stderr_count, errors_before, scopes_closed>>
    /\ pc = "visiting"
    /\ Len(stack) < MaxDepth
    /\ stack' = Append(stack, [orig |-> scoped])
    /\ scoped' = TRUE
    /\ UNCHANGED <<sol, sol_base, func_map, param_map, ev_map, expr_map,
                   time_map, prop_map, checked, act_lit_count, show_models,
                   to_prove, diagnostics, error_count, pc, comp, visited,
                   pending, presented, emitted, bulk, ret>>

\* do_loop, up to the visit of its body: save scoped, set it.
DoLoop ==
    /\ UNCHANGED <<fsmVars, checkerVars>>
    /\ UNCHANGED <<stderr_count, errors_before, scopes_closed>>
    /\ pc = "visiting"
    /\ Len(stack) < MaxDepth
    /\ stack' = Append(stack, [orig |-> scoped])
    /\ scoped' = TRUE
    /\ UNCHANGED <<sol, sol_base, func_map, param_map, ev_map, expr_map,
                   time_map, prop_map, checked, act_lit_count, show_models,
                   to_prove, diagnostics, error_count, pc, comp, visited,
                   pending, presented, emitted, bulk, ret>>

\* Variant of Restore: scoped is left set.
RestoreSkipped(frame) == TRUE

\* The value do_if / do_loop give scoped when they return.
Restore(frame) == frame.orig

\* do_if / do_loop, after the visit of the body: scoped is given back the
\* value saved on entry.
ScopeReturn ==
    /\ UNCHANGED <<fsmVars, checkerVars>>
    /\ UNCHANGED <<stderr_count, errors_before>>
    /\ scopes_closed' = TRUE
    /\ pc = "visiting"
    /\ stack # <<>>
    /\ scoped' = Restore(stack[Len(stack)])
    /\ stack' = SubSeq(stack, 1, Len(stack) - 1)
    /\ UNCHANGED <<sol, sol_base, func_map, param_map, ev_map, expr_map,
                   time_map, prop_map, checked, act_lit_count, show_models,
                   to_prove, diagnostics, error_count, pc, comp, visited,
                   pending, presented, emitted, bulk, ret>>

(* ----------------------------- end ------------------------------------ *)

\* Variant of TotalProp: the negation of the disjunction of the obligations.
TotalPropAny(tp, prm) ==
    App("not", <<App("or", [i \in DOMAIN tp |-> prm[tp[i].prop]])>>)

\* The negation of the conjunction of all pending obligations.
TotalProp(tp, prm) ==
    App("not", <<App("and", [i \in DOMAIN tp |-> prm[tp[i].prop]])>>)

\* What end sends for the bulk check.
BulkCmds(tp, prm) == <<AssertCmd(TotalProp(tp, prm)), CheckCmd>>

\* Variant of AfterBulk: failure analysis whatever the answer.
AfterBulkAnyAnswer(res) == "failing_props"

\* How end goes on after the bulk answer: failure analysis only on sat.
AfterBulk(res) == IF res = "sat" THEN "failing_props" ELSE "report"

\* Variant of NothingToProve: end never returns early.
NothingToProveNever(tp) == FALSE

\* The test of end for its early return: no obligation was collected.
NothingToProve(tp) == tp = <<>>

\* end, up to the bulk check; on sat failing_props takes the obligations.
End ==
    /\ UNCHANGED <<fsmVars, checkerVars>>
    /\ UNCHANGED <<stderr_count, errors_before, scopes_closed>>
    /\ pc = "visiting"
    /\ stack = <<>>
    /\ IF scoped
       THEN /\ pc' = "panic: unbalanced scopes"
            /\ UNCHANGED <<sol, to_prove, pending, bulk>>
       ELSE IF NothingToProve(to_prove)
       THEN /\ pc' = "ended"
            /\ UNCHANGED <<sol, to_prove, pending, bulk>>
       ELSE LET s1 == Send(sol, BulkCmds(to_prove, prop_map)) IN
            \E res \in Responses(s1, <<>>) :
                /\ sol' = s1
                /\ bulk' = res
                /\ pc' = AfterBulk(res)
                /\ IF AfterBulk(res) = "failing_props"
                   THEN pending' = to_prove /\ to_prove' = <<>>
                   ELSE UNCHANGED <<pending, to_prove>>
    /\ UNCHANGED <<sol_base, scoped, func_map, param_map, ev_map, expr_map,
                   time_map, prop_map, checked, act_lit_count, show_models,
                   diagnostics, error_count, comp, visited, stack, presented,
                   emitted, ret>>

(* ------------------------- failure analysis --------------------------- *)

None == [some |-> FALSE, assign |-> <<>>]
Some(assign) == [some |-> TRUE, assign |-> assign]

\* new_act_lit: the literal numbered k.
ActLit(k) == Sym("act_lit", k, "")

\* Variant of CheckCmds: the negated proposition asserted without the literal.
CheckCmdsUnguarded(actlit, sexp) ==
    <<DeclareConst(actlit, "Bool"),
      AssertCmd(App("not", <<sexp>>)),
      CheckAssuming(<<actlit>>)>>

\* What check_valid sends up to the individual check of a proposition.
CheckCmds(actlit, sexp) ==
    <<DeclareConst(actlit, "Bool"),
      AssertCmd(App("=>", <<actlit, App("not", <<sexp>>)>>)),
      CheckAssuming(<<actlit>>)>>

\* Variant of Disable: the literal is left enabled.
DisableSkipped(actlit) == <<>>

\* What check_valid sends after the answer was handled.
Disable(actlit) == <<AssertCmd(App("not", <<actlit>>))>>

RECURSIVE Unique(_)
\* itertools unique: the first occurrence of each element, in order.
Unique(q) ==
    IF q = <<>> THEN <<>>
    ELSE LET init == Unique(SubSeq(q, 1, Len(q) - 1))
             x == q[Len(q)] IN
         IF \E i \in DOMAIN init : init[i] = x THEN init ELSE Append(init, x)

\* Variant of get_assignments: the parameters are not deduplicated.
get_assignments_dup(relevant_vars, pm, w) ==
    IF relevant_vars = <<>> THEN [assign |-> <<>>, cmds |-> <<>>]
    ELSE LET sexps == [i \in DOMAIN relevant_vars |-> pm[relevant_vars[i]]] IN
         [assign |-> [i \in DOMAIN relevant_vars |->
                        [param |-> relevant_vars[i], value |-> w[sexps[i]]]],
          cmds |-> <<GetValue(sexps)>>]

\* get_assignments: the bindings of the relevant parameters in the model w,
\* and the command that asks for them.
get_assignments(relevant_vars, pm, w) ==
    IF relevant_vars = <<>> THEN [assign |-> <<>>, cmds |-> <<>>]
    ELSE LET u == Unique(relevant_vars)
             sexps == [i \in DOMAIN u |-> pm[u[i]]] IN
         [assign |-> [i \in DOMAIN u |-> [param |-> u[i], value |-> w[sexps[i]]]],
          cmds |-> <<GetValue(sexps)>>]

\* The result stored on sat, with the commands sent to obtain it.
OnSat(sm, relevant_vars, pm, w) ==
    IF sm THEN get_assignments(relevant_vars, pm, w)
    ELSE [assign |-> <<>>, cmds |-> <<>>]

\* The ways the individual check of a proposition can turn out, s being the
\* session after CheckCmds.
CheckOutcomes(s, actlit, sm, relevant_vars, pm) ==
    LET ms == Models(s, <<actlit>>) IN
    {[res |-> "unknown", out |-> None, cmds |-> <<>>]} \cup
    (IF ms = {}
     THEN {[res |-> "unsat", out |-> None, cmds |-> <<>>]}
     ELSE {[res |-> "sat", out |-> Some(r.assign), cmds |-> r.cmds] :
              r \in {OnSat(sm, relevant_vars, pm, w) : w \in ms}})

Note(kind, prop, assign) == [kind |-> kind, prop |-> prop, assign |-> assign]

\* Assign::display: bindings whose value is 0 are left out.
Display(assign) == SelectSeq(assign, LAMBDA b : b.value # 0)

\* reason.diag: the diagnostic positioned at the reason's source.
ReasonDiag(reason) == [src |-> reason, notes |-> <<>>]

\* Diagnostic::with_notes.
WithNotes(d, notes) == [d EXCEPT !.notes = @ \o notes]

\* Variant of FactDiag: the constraint is reported whatever show_models is.
FactDiagAlwaysNote(fact, assign, c, sm) ==
    IF c.infos[fact.reason] # "Assert"
    THEN [src |-> 0,
          notes |-> <<Note("Cannot prove constraint", Consequent(c, fact.prop), <<>>),
                      Note("No information", 0, <<>>)>>]
    ELSE LET d == WithNotes(ReasonDiag(fact.reason),
                    <<Note("Cannot prove constraint", Consequent(c, fact.prop), <<>>)>>)
         IN  IF sm /\ assign # <<>>
             THEN WithNotes(d, <<Note("Counterexample", 0, Display(assign))>>)
             ELSE d

\* The diagnostic check_valid builds for a failing fact.
FactDiag(fact, assign, c, sm) ==
    IF c.infos[fact.reason] # "Assert"
    THEN [src |-> 0,
          notes |-> <<Note("Cannot prove constraint", Consequent(c, fact.prop), <<>>),
                      Note("No information", 0, <<>>)>>]
    ELSE IF sm
    THEN LET d == WithNotes(ReasonDiag(fact.reason),
                    <<Note("Cannot prove constraint", Consequent(c, fact.prop), <<>>)>>)
         IN  IF assign # <<>>
             THEN WithNotes(d, <<Note("Counterexample", 0, Display(assign))>>)
             ELSE d
    ELSE ReasonDiag(fact.reason)

\* Variant of IsChecked: the cache is never consulted.
IsCheckedNever(chk, prop) == FALSE

\* Is the verdict on the proposition already known?
IsChecked(chk, prop) == prop \in DOMAIN chk

\* Variant of PushDiag: the new diagnostic is put in front of the buffer.
PushDiagFront(diags, chk, fact, c, sm) ==
    IF chk[fact.prop].some
    THEN <<FactDiag(fact, chk[fact.prop].assign, c, sm)>> \o diags
    ELSE diags

\* The diagnostics after check_valid looked up the stored result of the fact.
PushDiag(diags, chk, fact, c, sm) ==
    IF chk[fact.prop].some
    THEN Append(diags, FactDiag(fact, chk[fact.prop].assign, c, sm))
    ELSE diags

\* check_valid on the next fact failing_props iterates over.
CheckValid ==
    /\ UNCHANGED <<fsmVars, checkerVars>>
    /\ UNCHANGED <<stderr_count, errors_before, scopes_closed>>
    /\ pc = "failing_props"
    /\ pending # <<>>
    /\ LET fact == Head(pending)
           prop == fact.prop
           c == Comps[comp]
           next == IF Tail(pending) = <<>> THEN "report" ELSE "failing_props"
       IN
       IF ~IsChecked(checked, prop)
       THEN LET actlit == ActLit(act_lit_count + 1)
                s1 == Send(sol, CheckCmds(actlit, prop_map[prop]))
            IN
            /\ act_lit_count' = act_lit_count + 1
            /\ \E o \in CheckOutcomes(s1, actlit, show_models,
                            PropParams(c, Consequent(c, prop)), param_map) :
                IF o.res = "unknown"
                THEN /\ pc' = "panic: solver returned unknown"
                     /\ sol' = s1
                     /\ UNCHANGED <<checked, diagnostics, pending>>
                ELSE /\ sol' = Send(s1, o.cmds \o Disable(actlit))
                     /\ checked' = checked @@ (prop :> o.out)
                     /\ diagnostics' = PushDiag(diagnostics, checked', fact, c,
                                                show_models)
                     /\ pending' = Tail(pending)
                     /\ pc' = next
       ELSE /\ diagnostics' = PushDiag(diagnostics, checked, fact, c, show_models)
            /\ pending' = Tail(pending)
            /\ pc' = next
            /\ UNCHANGED <<sol, checked, act_lit_count>>
    /\ UNCHANGED <<sol_base, scoped, func_map, param_map, ev_map, expr_map,
                   time_map, prop_map, show_models, to_prove, error_count,
                   comp, visited, stack, presented, emitted, bulk, ret>>

(* ------------------------ reporting ----------------------------------- *)

\* Variant of CountErrors: only diagnostics with a source are counted.
CountErrorsSourced(count, diags) ==
    count + Len(SelectSeq(diags, LAMBDA d : d.src # 0))

\* Variant of CountErrors: the count is that of the current component.
CountErrorsOfComponent(count, diags) == Len(diags)

\* The error count after the loop of end emitted the diagnostics.
CountErrors(count, diags) == count + Len(diags)

\* end, the report of all the errors.
Report ==
    /\ UNCHANGED <<fsmVars, checkerVars>>
    /\ pc = "report"
    /\ emitted' = diagnostics
    /\ error_count' = CountErrors(error_count, diagnostics)
    /\ stderr_count' = stderr_count + Len(diagnostics)
    /\ UNCHANGED <<errors_before, scopes_closed>>
    /\ pc' = "ended"
    /\ UNCHANGED <<sol, sol_base, scoped, func_map, param_map, ev_map,
                   expr_map, time_map, prop_map, checked, act_lit_count,
                   show_models, to_prove, diagnostics, comp, visited, stack,
                   pending, presented, bulk, ret>>

\* The value after_traversal returns.
TraversalResult(count) ==
    IF count > 0 THEN [called |-> TRUE, some |-> TRUE, val |-> count]
    ELSE [called |-> TRUE, some |-> FALSE, val |-> 0]

\* after_traversal, called once every component was visited.
AfterTraversal ==
    /\ UNCHANGED <<fsmVars, checkerVars>>
    /\ UNCHANGED <<stderr_count, errors_before, scopes_closed>>
    /\ pc \in {"constructed", "ended"}
    /\ ret' = TraversalResult(error_count)
    /\ pc' = "done"
    /\ UNCHANGED <<sol, sol_base, scoped, func_map, param_map, ev_map,
                   expr_map, time_map, prop_map, checked, act_lit_count,
                   show_models, to_prove, diagnostics, error_count, comp,
                   visited, stack, pending, presented, emitted, bulk>>

Next ==
    \/ ClearData
    \/ Start
    \/ FactCb
    \/ DoIf
    \/ DoLoop
    \/ ScopeReturn
    \/ End
    \/ CheckValid
    \/ Report
    \/ AfterTraversal

Spec == Init /\ [][Next]_vars

(* ------------------- the time algebra on its own ---------------------- *)

\* The pass while the time algebra is looked at: not constructed.
DischargeIdle ==
    /\ sol = <<>>
    /\ sol_base = "Z3"
    /\ scoped = FALSE
    /\ error_count = 0
    /\ act_lit_count = 0
    /\ to_prove = <<>>
    /\ show_models = FALSE
    /\ func_map = FuncMap
    /\ param_map = <<>>
    /\ prop_map = <<>>
    /\ time_map = <<>>
    /\ ev_map = <<>>
    /\ expr_map = <<>>
    /\ checked = <<>>
    /\ diagnostics = <<>>
    /\ pc = "idle"
    /\ comp = 0
    /\ visited = 0
    /\ stack = <<>>
    /\ pending = <<>>
    /\ presented = <<>>
    /\ emitted = <<>>
    /\ bulk = "none"
    /\ ret = [called |-> FALSE, some |-> FALSE, val |-> 0]
    /\ stderr_count = 0
    /\ errors_before = 0
    /\ scopes_closed = FALSE

\* Two expressions as FsmIdxs::default makes them.
FsmInit == DischargeIdle /\ FsmIdle /\ CheckerIdle

\* lhs.insert(name, state)
InsertLhs ==
    /\ last_op.name # "resolve_panic"
    /\ \E name \in EventIds, state \in 0..MaxOffset :
          /\ lhs' = insert(lhs, name, state)
          /\ last_op' = Op("insert", lhs, name, 0, state, <<>>,
                      Interval(NoRange, NoRange), insert(lhs, name, state))
    /\ ord' = NoOrd
    /\ UNCHANGED rhs
    /\ UNCHANGED <<dischargeVars, checkerVars>>

\* rhs.insert(name, state)
InsertRhs ==
    /\ last_op.name # "resolve_panic"
    /\ \E name \in EventIds, state \in 0..MaxOffset :
          /\ rhs' = insert(rhs, name, state)
          /\ last_op' = Op("insert", rhs, name, 0, state, <<>>,
                      Interval(NoRange, NoRange), insert(rhs, name, state))
    /\ ord' = NoOrd
    /\ UNCHANGED lhs
    /\ UNCHANGED <<dischargeVars, checkerVars>>

\* The comparisons of lhs and rhs: partial_cmp both ways, lhs <= rhs,
\* rhs <= lhs, lhs >= rhs and lhs == rhs.
PartialCmp ==
    /\ last_op.name # "resolve_panic"
    /\ ~ord.called
    /\ ord' = [called |-> TRUE,
               ab |-> partial_cmp(lhs, rhs),
               ba |-> partial_cmp(rhs, lhs),
               le_ab |-> le(lhs, rhs),
               le_ba |-> le(rhs, lhs),
               ge_ab |-> ge(lhs, rhs),
               eq |-> eq(lhs, rhs)]
    /\ last_op' = Op("partial_cmp", lhs, "", 0, 0, <<>>,
                Interval(NoRange, NoRange), Default)
    /\ UNCHANGED <<lhs, rhs>>
    /\ UNCHANGED <<dischargeVars, checkerVars>>

\* lhs = lhs.increment(m).increment(n), with lhs.increment(m + n) computed
\* next to it; the offsets stay within MaxOffset.
Increment ==
    /\ last_op.name # "resolve_panic"
    /\ \E m \in 0..MaxOffset, n \in 0..MaxOffset :
          /\ \A i \in DOMAIN lhs : lhs[i].st + m + n <= MaxOffset
          /\ lhs' = increment(increment(lhs, m), n)
          /\ last_op' = Op("increment", lhs, "", m, n, <<>>,
                      Interval(NoRange, NoRange), increment(lhs, m + n))
    /\ ord' = NoOrd
    /\ UNCHANGED rhs
    /\ UNCHANGED <<dischargeVars, checkerVars>>

\* lhs = lhs.resolve(bindings): some events are bound, each to itself, to
\* another event or to rhs; an event of lhs without a binding makes resolve
\* panic.
Resolve ==
    /\ last_op.name # "resolve_panic"
    /\ \E D \in SUBSET EventIds :
       \E bindings \in [D -> {unit(e, 0) : e \in EventIds} \cup {rhs}] :
          IF Resolvable(lhs, bindings)
          THEN LET res == resolve(lhs, bindings) IN
               /\ \A i \in DOMAIN res : res[i].st <= MaxOffset
               /\ lhs' = res
               /\ last_op' = Op("resolve", lhs, "", 0, 0, bindings,
                           Interval(NoRange, NoRange), res)
          ELSE /\ lhs' = lhs
               /\ last_op' = Op("resolve_panic", lhs, "", 0, 0, bindings,
                           Interval(NoRange, NoRange), Default)
    /\ ord' = NoOrd
    /\ UNCHANGED rhs
    /\ UNCHANGED <<dischargeVars, checkerVars>>

\* as_exact_offset of an interval whose exact range, if it has one, goes
\* from lhs to rhs.
AsExactOffset ==
    /\ last_op.name # "resolve_panic"
    /\ \E exact \in {Range(lhs, rhs), NoRange} :
          LET iv == Interval(exact, Range(lhs, rhs)) IN
          last_op' = Op("as_exact_offset", lhs, "", 0, 0, <<>>, iv,
                   as_exact_offset(iv))
    /\ ord' = NoOrd
    /\ UNCHANGED <<lhs, rhs>>
    /\ UNCHANGED <<dischargeVars, checkerVars>>

FsmNext ==
    \/ InsertLhs
    \/ InsertRhs
    \/ PartialCmp
    \/ Increment
    \/ Resolve
    \/ AsExactOffset

SpecFsmIdxs == FsmInit /\ [][FsmNext]_vars

(* ----------------- the interval checker on its own -------------------- *)

\* check_component up to check_commands: the context of the signatures, the
\* instance _this of the reversed signature, its constraints as facts.
CheckerInit ==
    /\ DischargeIdle
    /\ FsmIdle
    /\ LET rev_sig == reversed(MainSig)
           c0 == add_invocation(ContextFrom(Sigs), THIS, this_instance(rev_sig))
       IN  ctx = [c0 EXCEPT !.facts =
                    [i \in DOMAIN rev_sig.constraints |->
                        ConstraintFact(rev_sig.constraints[i])]]
    /\ cpc = "commands"
    /\ ncmds = 0
    /\ last = NoLast

\* check_commands on an Instance command (instance names are not reused).
AddInstance ==
    /\ cpc = "commands"
    /\ ncmds < MaxCmds
    /\ \E cmd \in {k \in Commands : k.kind = "Instance"} :
          /\ cmd.bind \notin DOMAIN ctx.instances
          /\ LET r == add_instance(ctx, cmd.bind, cmd.comp) IN
             /\ ctx' = r.ctx
             /\ cpc' = IF r.status = "ok" THEN "commands" ELSE r.status
             /\ last' = [cmd |-> cmd, before |-> ctx, status |-> r.status]
    /\ ncmds' = ncmds + 1
    /\ UNCHANGED <<dischargeVars, fsmVars>>

\* check_commands on an Invoke command (invocation names are not reused).
CheckInvoke ==
    /\ cpc = "commands"
    /\ ncmds < MaxCmds
    /\ \E cmd \in {k \in Commands : k.kind = "Invoke"} :
          /\ cmd.bind \notin DOMAIN ctx.invocations
          /\ LET r == check_invoke(cmd, ctx) IN
             /\ ctx' = r.ctx
             /\ cpc' = IF r.status = "ok" THEN "commands" ELSE r.status
             /\ last' = [cmd |-> cmd, before |-> ctx, status |-> r.status]
    /\ ncmds' = ncmds + 1
    /\ UNCHANGED <<dischargeVars, fsmVars>>

\* check_commands on a Connect command.
CheckConnect ==
    /\ cpc = "commands"
    /\ ncmds < MaxCmds
    /\ \E cmd \in {k \in Commands : k.kind = "Connect"} :
          LET r == check_connect(cmd, ctx) IN
          /\ ctx' = r.ctx
          /\ cpc' = IF r.status = "ok" THEN "commands" ELSE r.status
          /\ last' = [cmd |-> cmd, before |-> ctx, status |-> r.status]
    /\ ncmds' = ncmds + 1
    /\ UNCHANGED <<dischargeVars, fsmVars>>

CheckerNext ==
    \/ AddInstance
    \/ CheckInvoke
    \/ CheckConnect

SpecChecker == CheckerInit /\ [][CheckerNext]_vars

(* ------------------- meaning of the IR, for the claims ---------------- *)

\* Values of the parameters and events of a component.
Worlds(c) == [params : [DOMAIN c.params -> ValDom],
              events : [DOMAIN c.events -> ValDom]]

RECURSIVE ExprVal(_, _, _)
ExprVal(c, e, w) ==
    LET x == c.exprs[e] IN
    CASE x.tag = "Param" -> w.params[x.l]
      [] x.tag = "Concrete" -> x.l
      [] x.tag = "Bin" /\ x.op = "Add" -> ExprVal(c, x.l, w) + ExprVal(c, x.r, w)
      [] x.tag = "Bin" /\ x.op = "Sub" -> ExprVal(c, x.l, w) - ExprVal(c, x.r, w)
      [] x.tag = "Bin" /\ x.op = "Mul" -> ExprVal(c, x.l, w) * ExprVal(c, x.r, w)

TimeVal(c, t, w) == w.events[c.times[t].event] + ExprVal(c, c.times[t].offset, w)

Compare(op, a, b) ==
    CASE op = "Gt" -> a > b
      [] op = "Gte" -> a >= b
      [] op = "Eq" -> a = b

RECURSIVE PropVal(_, _, _)
PropVal(c, p, w) ==
    LET x == c.props[p] IN
    CASE x.tag = "True" -> TRUE
      [] x.tag = "False" -> FALSE
      [] x.tag = "Cmp" -> Compare(x.op, ExprVal(c, x.l, w), ExprVal(c, x.r, w))
      [] x.tag = "TimeCmp" -> Compare(x.op, TimeVal(c, x.l, w), TimeVal(c, x.r, w))
      [] x.tag = "Not" -> ~PropVal(c, x.l, w)
      [] x.tag = "And" -> PropVal(c, x.l, w) /\ PropVal(c, x.r, w)
      [] x.tag = "Or" -> PropVal(c, x.l, w) \/ PropVal(c, x.r, w)
      [] x.tag = "Implies" -> PropVal(c, x.l, w) => PropVal(c, x.r, w)

\* The negation of the proposition is satisfiable.
Falsifiable(c, p) == \E w \in Worlds(c) : ~PropVal(c, p, w)

\* The propositions of each component that can be falsified.
FalsifiableProps ==
    [c \in DOMAIN Comps |->
        {p \in DOMAIN Comps[c].props : Falsifiable(Comps[c], p)}]

(* ------------------------ views of the state -------------------------- *)

\* The commands sent in the current solver scope, in order.
Log == sol[Len(sol)]

LogIdx(c) == {i \in DOMAIN Log : Log[i].cmd = c}

\* The facts presented since the last clear_data, in order.
PresentedFacts == [i \in DOMAIN presented |-> presented[i].fact]

\* The obligations failure analysis is done with.
Processed == SubSeq(PresentedFacts, 1, Len(PresentedFacts) - Len(pending))

\* Those of them whose proposition can be falsified.
FailingProcessed ==
    SelectSeq(Processed, LAMBDA f : f.prop \in FalsifiableProps[comp])

Panicked == pc \in PanicStates

NotOf(x) == AssertCmd(App("not", <<x>>))

HasNote(d, kind) == \E i \in DOMAIN d.notes : d.notes[i].kind = kind

RECURSIVE Syms(_)
\* The symbols that occur in a term.
Syms(t) ==
    IF t.op = "sym" THEN {t}
    ELSE UNION {Syms(t.args[i]) : i \in DOMAIN t.args}

\* Every entry of the arena refers only to entries that exist, and an
\* expression or proposition only to ones of smaller index.
WellFormedArena(c) ==
    /\ \A e \in DOMAIN c.exprs :
          LET x == c.exprs[e] IN
          /\ x.tag = "Param" => x.l \in DOMAIN c.params
          /\ x.tag = "Bin" => x.l \in 1..(e - 1) /\ x.r \in 1..(e - 1)
    /\ \A t \in DOMAIN c.times :
          c.times[t].event \in DOMAIN c.events
             /\ c.times[t].offset \in DOMAIN c.exprs
    /\ \A p \in DOMAIN c.props :
          LET x == c.props[p] IN
          /\ x.tag = "Cmp" => x.l \in DOMAIN c.exprs /\ x.r \in DOMAIN c.exprs
          /\ x.tag = "TimeCmp" => x.l \in DOMAIN c.times /\ x.r \in DOMAIN c.times
          /\ x.tag = "Not" => x.l \in 1..(p - 1)
          /\ x.tag \in {"And", "Or", "Implies"} =>
                x.l \in 1..(p - 1) /\ x.r \in 1..(p - 1)

\* Kind and index of the symbols start is to introduce, in order.
DeclOrder(c) ==
    [i \in DOMAIN c.params |-> <<"param", i>>]
       \o [i \in DOMAIN c.events |-> <<"event", i>>]
       \o [i \in DOMAIN c.exprs |-> <<"e", i>>]
       \o [i \in DOMAIN c.times |-> <<"t", i>>]
       \o [i \in DOMAIN c.props |-> <<"prop", i>>]

\* The components whose arena is well formed, and the order for each.
WellFormedComps == {c \in DOMAIN Comps : WellFormedArena(Comps[c])}

DeclOrders == [c \in DOMAIN Comps |-> DeclOrder(Comps[c])]

\* G+n, and the interval [G+s, G+e], written out.
At(n) == <<[ev |-> "G", st |-> n]>>

Iv(s, e) ==
    [exact |-> [some |-> FALSE, start |-> <<>>, end |-> <<>>],
     within |-> [some |-> TRUE, start |-> At(s), end |-> At(e)]]

IsSubset(requirement, guarantee) ==
    [tag |-> "Subset", req |-> requirement, guar |-> guarantee,
     con |-> [left |-> <<>>, right |-> <<>>]]

IsConstraint(left, right) ==
    [tag |-> "Constraint",
     req |-> [exact |-> [some |-> FALSE, start |-> <<>>, end |-> <<>>],
              within |-> [some |-> FALSE, start |-> <<>>, end |-> <<>>]],
     guar |-> [exact |-> [some |-> FALSE, start |-> <<>>, end |-> <<>>],
               within |-> [some |-> FALSE, start |-> <<>>, end |-> <<>>]],
     con |-> [left |-> left, right |-> right]]

\* What the ports of the program require and guarantee: o and a by the
\* signature of Main, x0.p and x0.out by that of Sub with T = G, U = G+1.
RequirementOf(port) ==
    CASE port = ThisPort("o") -> Iv(1, 2)
      [] port = CompPort("x0", "p") -> Iv(0, 1)

GuaranteeOf(port) ==
    CASE port = ThisPort("a") -> Iv(0, 1)
      [] port = CompPort("x0", "out") -> Iv(1, 3)

\* The obligations of each invocation of the program, in order: the two
\* constraints U >= T and T+1 > T under the binding, then the input ports.
ObligationsOf(bind) ==
    CASE bind = "x0" -> <<IsConstraint(At(1), At(0)), IsConstraint(At(1), At(0)),
                          IsSubset(Iv(0, 1), Iv(0, 1))>>
      [] bind = "x1" -> <<IsConstraint(At(2), At(1)), IsConstraint(At(2), At(1)),
                          IsSubset(Iv(1, 2), Iv(1, 3)),
                          IsSubset(Iv(2, 3), Iv(0, 1))>>
      [] bind = "x2" -> <<IsConstraint(At(0), At(0)), IsConstraint(At(1), At(0)),
                          IsSubset(Iv(0, 1), Iv(0, 1))>>
      [] bind = "x3" -> <<>>

\* The obligations the last command added.
Added ==
    SubSeq(ctx.obligations, Len(last.before.obligations) + 1,
           Len(ctx.obligations))

(* ------------------------------ claims -------------------------------- *)

\* C1: every unknown answer of the solver aborts the pass: after an unknown
\* answer to the bulk check of end, or to an individual check-assuming (the
\* last command sent, the literal not yet disabled), the pass has panicked
\* and does not go on to report.
C1_UnknownAborts ==
    (\/ bulk = "unknown"
     \/ (Log # <<>> /\ Log[Len(Log)].cmd = "check-assuming"))
        => pc = "panic: solver returned unknown"

\* C2: end with a nonempty to_prove asserts the negated conjunction of the
\* pending obligations and issues exactly one bulk check; on unsat there is
\* no individual check, no diagnostic and the error count is unchanged; on
\* sat failure analysis goes over every pending obligation.
C2_BulkCheck ==
    bulk # "none" =>
        /\ PresentedFacts # <<>>
        /\ Cardinality(LogIdx("check")) = 1
        /\ \A i \in LogIdx("check") :
              /\ i > 1
              /\ Log[i - 1] = AssertCmd(App("not",
                    <<App("and", [k \in DOMAIN PresentedFacts |->
                            Sym("prop", PresentedFacts[k].prop, "")])>>))
              /\ \A j \in 1..i : Log[j].cmd # "check-assuming"
        /\ bulk = "unsat" =>
              /\ LogIdx("check-assuming") = {}
              /\ diagnostics = <<>>
              /\ emitted = <<>>
              /\ error_count = errors_before
              /\ pc \in {"report", "ended", "done"}
        /\ bulk = "sat" =>
              /\ to_prove = <<>>
              /\ \E n \in 0..Len(PresentedFacts) :
                    pending = SubSeq(PresentedFacts, n + 1, Len(PresentedFacts))
              /\ pc \in {"report", "ended", "done"} =>
                    /\ pending = <<>>
                    /\ \A k \in DOMAIN PresentedFacts :
                          PresentedFacts[k].prop \in DOMAIN checked

C2_Witness ==
    /\ bulk = "sat"
    /\ pc = "ended"
    /\ Len(PresentedFacts) = 2
    /\ Cardinality(DOMAIN checked) = 2

C4_OwnVerdict ==
    bulk = "sat" =>
        /\ \A p \in DOMAIN checked :
              checked[p].some <=> p \in FalsifiableProps[comp]
        /\ Len(diagnostics) = Len(FailingProcessed)
        /\ \A i \in DOMAIN diagnostics :
              LET f == FailingProcessed[i] IN
              diagnostics[i].src =
                 IF Comps[comp].infos[f.reason] = "Assert" THEN f.reason ELSE 0

C4_Witness ==
    /\ bulk = "sat"
    /\ pc = "ended"
    /\ comp = 1
    /\ PresentedFacts = <<Fact(1, 1, "Assert"), Fact(5, 2, "Assert")>>
    /\ Len(emitted) = 2

\* C5: for every proposition checked, the commands are: declare a fresh
\* literal, assert literal => not prop, check-assuming [literal], get-value
\* only with models enabled, assert not literal; so at every check-assuming
\* all literals allocated before are disabled, and after a completed analysis
\* every literal is.
C5_LiteralProtocol ==
    /\ \A i \in LogIdx("check-assuming") :
          /\ i > 2
          /\ Log[i - 2].cmd = "declare-const"
          /\ Log[i - 2].name.kind = "act_lit"
          /\ Log[i].args = <<Log[i - 2].name>>
          /\ Log[i - 1].cmd = "assert"
          /\ Log[i - 1].body.op = "=>"
          /\ Log[i - 1].body.args[1] = Log[i - 2].name
          /\ Log[i - 1].body.args[2].op = "not"
          /\ Log[i - 1].body.args[2].args[1].kind = "prop"
          /\ \A j \in 1..(i - 3) :
                Log[j].cmd = "declare-const" =>
                    /\ Log[j].name # Log[i - 2].name
                    /\ \E k \in (j + 1)..(i - 1) : Log[k] = NotOf(Log[j].name)
          /\ IF i = Len(Log) THEN pc = "panic: solver returned unknown"
             ELSE \/ Log[i + 1] = NotOf(Log[i - 2].name)
                  \/ /\ Log[i + 1].cmd = "get-value"
                     /\ show_models
                     /\ i + 2 <= Len(Log)
                     /\ Log[i + 2] = NotOf(Log[i - 2].name)
    /\ \A j \in LogIdx("declare-const") :
          /\ j + 2 \in LogIdx("check-assuming")
          /\ pc \in {"failing_props", "report", "ended", "done"} =>
                \E k \in (j + 1)..Len(Log) : Log[k] = NotOf(Log[j].name)

C5_Witness ==
    /\ Cardinality(LogIdx("check-assuming")) = 2
    /\ Cardinality(LogIdx("get-value")) = 1
    /\ pc = "report"

\* C6 as stated: every diagnostic of a failing obligation with an Assert
\* reason carries the note "Cannot prove constraint", whether show_models is
\* true or false.
C6_NoteWhateverModels ==
    \A i \in DOMAIN diagnostics :
        diagnostics[i].src # 0 =>
            HasNote(diagnostics[i], "Cannot prove constraint")

\* C6 amended: the diagnostic of a failing obligation with an Assert reason
\* carries the note "Cannot prove constraint: <consequent>" when show_models
\* is true; when show_models is false it is the reason's diagnostic with no
\* note added.
C6_NoteOnlyWithModels ==
    bulk = "sat" =>
        /\ Len(diagnostics) = Len(FailingProcessed)
        /\ \A i \in DOMAIN diagnostics :
              LET f == FailingProcessed[i]
                  d == diagnostics[i] IN
              Comps[comp].infos[f.reason] = "Assert" =>
                  /\ d.src = f.reason
                  /\ IF show_models
                     THEN /\ d.notes # <<>>
                          /\ d.notes[1] = Note("Cannot prove constraint",
                                    Consequent(Comps[comp], f.prop), <<>>)
                     ELSE d.notes = <<>>

C6_Witness ==
    /\ ~show_models
    /\ pc = "ended"
    /\ \E i \in DOMAIN emitted : emitted[i].src # 0 /\ emitted[i].notes = <<>>

\* C7: with show_models false a sat check stores an empty Assign, no get-value
\* is sent and no diagnostic has a Counterexample note; with show_models true
\* get-value comes only right after the check-assuming of a proposition found
\* sat, and asks for the parameters of its consequent, each once.
C7_GetValue ==
    /\ ~show_models =>
          /\ \A i \in DOMAIN Flatten(sol) : Flatten(sol)[i].cmd # "get-value"
          /\ \A p \in DOMAIN checked : checked[p].assign = <<>>
          /\ \A i \in DOMAIN diagnostics : ~HasNote(diagnostics[i], "Counterexample")
          /\ \A i \in DOMAIN emitted : ~HasNote(emitted[i], "Counterexample")
    /\ \A i \in LogIdx("get-value") :
          /\ show_models
          /\ i > 3
          /\ Log[i - 1].cmd = "check-assuming"
          /\ LET p == Log[i - 2].body.args[2].args[1].idx
                 rel == PropParams(Comps[comp], Consequent(Comps[comp], p))
                 want == {param_map[rel[k]] : k \in DOMAIN rel}
             IN  /\ p \in DOMAIN checked
                 /\ checked[p].some
                 /\ {Log[i].args[k] : k \in DOMAIN Log[i].args} = want
                 /\ Len(Log[i].args) = Cardinality(want)
                 /\ Len(checked[p].assign) = Cardinality(want)
                 /\ want # {}
    /\ show_models =>
          Cardinality(LogIdx("get-value")) =
             Cardinality({p \in DOMAIN checked :
                /\ checked[p].some
                /\ PropParams(Comps[comp], Consequent(Comps[comp], p)) # <<>>})

C7_Witness ==
    /\ show_models
    /\ pc = "ended"
    /\ comp = 1
    /\ 5 \in DOMAIN checked
    /\ Len(PropParams(CompA, Consequent(CompA, 5))) = 3
    /\ Len(checked[5].assign) = 2
    /\ \E i \in DOMAIN emitted : HasNote(emitted[i], "Counterexample")

\* C8: the error count grows by one per diagnostic emitted in end and by
\* nothing else; after_traversal returns Some(count) iff the count is nonzero;
\* a failing obligation without an Assert reason gives one sourceless
\* diagnostic and counts as one error.
C8_ErrorCount ==
    /\ error_count = stderr_count
    /\ error_count = errors_before + Len(emitted)
    /\ pc \notin {"ended", "done"} => emitted = <<>>
    /\ ret.called =>
          /\ ret.some <=> error_count > 0
          /\ ret.some => ret.val = error_count
          /\ pc = "done"
    /\ (bulk = "sat" /\ pc \in {"ended", "done"}) =>
          /\ Len(emitted) = Len(FailingProcessed)
          /\ \A i \in DOMAIN emitted :
                emitted[i].src = 0 <=>
                   Comps[comp].infos[FailingProcessed[i].reason] # "Assert"

C8_Witness ==
    /\ pc = "done"
    /\ ret.some
    /\ ret.val = 2
    /\ \E i \in DOMAIN emitted : emitted[i].src = 0

\* C9: within one component there is at most one activation literal and one
\* check-assuming per proposition index; an obligation whose proposition is
\* already in checked sends nothing to the solver and, when the stored result
\* is a failure, still gets its own diagnostic from its own reason.
C9_OncePerProp ==
    /\ Cardinality(LogIdx("check-assuming")) = act_lit_count
    /\ Cardinality(LogIdx("declare-const")) = act_lit_count
    /\ \A i, j \in LogIdx("check-assuming") :
          i # j => Log[i - 1].body.args[2].args[1].idx
                      # Log[j - 1].body.args[2].args[1].idx
    /\ bulk # "sat" => act_lit_count = 0
    /\ bulk = "sat" =>
          /\ DOMAIN checked = {Processed[k].prop : k \in DOMAIN Processed}
          /\ act_lit_count = Cardinality(DOMAIN checked)
                               + (IF Panicked THEN 1 ELSE 0)
          /\ \A i \in LogIdx("check") : \A j \in (i + 1)..Len(Log) :
                Log[j].cmd \in {"declare-const", "assert", "check-assuming",
                                "get-value"}
          /\ \A i \in LogIdx("check") :
                Cardinality({j \in LogIdx("assert") : j > i})
                   = act_lit_count + Cardinality(DOMAIN checked)
          /\ Len(diagnostics) = Len(FailingProcessed)
          /\ \A i \in DOMAIN diagnostics :
                LET f == FailingProcessed[i] IN
                diagnostics[i].src =
                   IF Comps[comp].infos[f.reason] = "Assert" THEN f.reason ELSE 0

C9_Witness ==
    /\ pc = "ended"
    /\ comp = 1
    /\ PresentedFacts = <<Fact(1, 1, "Assert"), Fact(1, 3, "Assert")>>
    /\ act_lit_count = 1
    /\ Len(emitted) = 2
    /\ emitted[1].src = 1
    /\ emitted[2].src = 0

\* C10: the solver scope depth is 1 after construction and after every
\* clear_data, and no other callback pushes or pops; the primitive functions
\* declared before the first push stay declared, and nothing declared or
\* asserted for one component is in scope for the next.
C10_ScopeDepth ==
    /\ Depth(sol) = 1
    /\ sol[1] = FuncDecls
    /\ {func_map[f] : f \in DOMAIN func_map} \subseteq
          {d.name : d \in InScope(sol, "declare-fun")}
    /\ pc \in {"constructed", "cleared"} =>
          /\ sol[2] = <<>>
          /\ IntConsts(sol) = {}
          /\ BoolConsts(sol) = {}
          /\ InScope(sol, "define-const") = {}
          /\ InScope(sol, "assert") = {}

C10_Witness ==
    /\ pc = "cleared"
    /\ visited = 2
    /\ error_count > 0

\* C11: right after clear_data the parameter, event, expression, time and
\* proposition maps, the checked cache, to_prove and the diagnostics buffer
\* are empty and the literal counter is 0; so every pending obligation, every
\* cached verdict, every literal and every diagnostic buffered or emitted
\* belongs to a fact presented since that clear_data, never to one of an
\* earlier component.
C11_ClearData ==
    /\ pc = "cleared" =>
          /\ param_map = <<>>
          /\ ev_map = <<>>
          /\ expr_map = <<>>
          /\ time_map = <<>>
          /\ prop_map = <<>>
          /\ checked = <<>>
          /\ to_prove = <<>>
          /\ diagnostics = <<>>
          /\ act_lit_count = 0
    /\ \A i \in DOMAIN to_prove :
          \E k \in DOMAIN PresentedFacts : PresentedFacts[k] = to_prove[i]
    /\ DOMAIN checked \subseteq
          {PresentedFacts[k].prop : k \in DOMAIN PresentedFacts}
    /\ act_lit_count <= Len(PresentedFacts)
    /\ Len(diagnostics) <= Len(PresentedFacts)
    /\ Len(emitted) <= Len(PresentedFacts)

C11_Witness ==
    /\ pc = "cleared"
    /\ visited = 2
    /\ stderr_count = 2

C13_InsertionOrder ==
    bulk = "sat" =>
        LET done == IF pc = "panic: solver returned unknown"
                    THEN SubSeq(PresentedFacts, 1, Len(Processed) + 1)
                    ELSE Processed
            guards == SelectSeq(Log, LAMBDA x : x.cmd = "assert" /\ x.body.op = "=>")
            failing == SelectSeq(Processed, LAMBDA f : checked[f.prop].some)
        IN
        /\ pending = SubSeq(PresentedFacts, Len(Processed) + 1, Len(PresentedFacts))
        /\ [i \in DOMAIN guards |-> guards[i].body.args[2].args[1].idx]
              = Unique([i \in DOMAIN done |-> done[i].prop])
        /\ diagnostics =
              [i \in DOMAIN failing |->
                  FactDiag(failing[i], checked[failing[i].prop].assign,
                           Comps[comp], show_models)]
        /\ pc \in {"ended", "done"} => emitted = diagnostics

C13_Witness ==
    /\ pc = "ended"
    /\ comp = 1
    /\ PresentedFacts = <<Fact(5, 2, "Assert"), Fact(1, 1, "Assert")>>
    /\ Len(emitted) = 2
    /\ emitted[1].src = 2
    /\ emitted[2].src = 1

\* C14: scoped is true whenever the walker is inside the body of a do_if or
\* do_loop, whatever the depth; each call in progress holds the value scoped
\* had on its entry (false for the outermost, true for a nested one) and
\* gives it back on return, so once every construct has returned scoped is
\* false and end does not fail its "unbalanced scopes" assertion.
C14_ScopedBalanced ==
    /\ stack # <<>> => scoped
    /\ stack = <<>> => ~scoped
    /\ \A i \in DOMAIN stack : stack[i].orig = (i > 1)
    /\ \A i \in DOMAIN presented : presented[i].depth > 0 => scoped
    /\ pc # "panic: unbalanced scopes"
    /\ pc \in {"failing_props", "report", "ended", "done"} => ~scoped

C14_Witness ==
    /\ pc = "ended"
    /\ scopes_closed
    /\ ~scoped
    /\ Len(presented) = 2
    /\ bulk = "sat"

\* C15: when end is called for a component for which no obligation was
\* collected, it sends nothing to the solver (no assert, no check, no
\* check-assuming), buffers and emits no diagnostic, and the error count is
\* what it was when the visit of the component began.
C15_NoObligation ==
    (pc \in {"ended", "done"} /\ comp # 0 /\ PresentedFacts = <<>>) =>
        /\ bulk = "none"
        /\ \A i \in DOMAIN Log :
              Log[i].cmd \notin {"assert", "check", "check-assuming", "get-value"}
        /\ Len(Log) = Len(DeclOrders[comp])
        /\ diagnostics = <<>>
        /\ emitted = <<>>
        /\ error_count = errors_before

C15_Witness ==
    /\ pc = "ended"
    /\ PresentedFacts = <<>>
    /\ visited = 2
    /\ error_count = 2
    /\ errors_before = 2

\* C18: for nonempty a and b over the same events, a <= b holds whenever
\* every offset of a is at most that of the same event in b, some being equal
\* and others smaller included, and likewise a >= b; partial_cmp gives None
\* only when the events differ or the offsets disagree in direction.
C18_PointwiseOrder ==
    (ord.called /\ lhs # Default /\ rhs # Default) =>
        LET same == events(lhs) = events(rhs)
            below == \A e \in events(lhs) : Get(lhs, e) <= Get(rhs, e)
            above == \A e \in events(lhs) : Get(lhs, e) >= Get(rhs, e)
        IN
        /\ (same /\ below) => ord.le_ab
        /\ (same /\ above) => ord.ge_ab
        /\ ord.ab = "None" => (~same \/ (~below /\ ~above))

\* C19: for nonempty x and y whose sets of events differ, partial_cmp gives
\* None in both argument orders, also when the events of one are a strict
\* subset of the events of the other.
C19_DifferentEvents ==
    (ord.called /\ lhs # Default /\ rhs # Default
        /\ events(lhs) # events(rhs)) =>
        ord.ab = "None" /\ ord.ba = "None"

\* C20: on nonempty expressions the order is reflexive, and antisymmetric
\* for the derived equality: x <= y and y <= x only if x == y, whatever the
\* order in which the summands were inserted.
C20_ReflexiveAntisymmetric ==
    (ord.called /\ lhs # Default /\ rhs # Default) =>
        /\ lhs = rhs => ord.le_ab
        /\ (ord.le_ab /\ ord.le_ba) => ord.eq

\* C16: a connect dst <- src that returns normally adds exactly the one
\* obligation requirement(dst) subset-of guarantee(src) when src is a bare
\* port or a port of an invocation, and none when src is a constant; a bare
\* port is looked up in the instance _this, whose inputs are the outputs of
\* the component and whose outputs are its inputs; a connect that fails
\* adds nothing.
C16_ConnectObligation ==
    /\ THIS \in DOMAIN ctx.invocations
    /\ ctx.invocations[THIS].sig.inputs = MainSig.outputs
    /\ ctx.invocations[THIS].sig.outputs = MainSig.inputs
    /\ last.cmd.kind = "Connect" =>
          /\ SubSeq(ctx.obligations, 1, Len(last.before.obligations))
                = last.before.obligations
          /\ ctx.invocations = last.before.invocations
          /\ last.status = "ok" =>
                IF last.cmd.src.tag = "Constant" THEN Added = <<>>
                ELSE Added = <<[fact |-> IsSubset(RequirementOf(last.cmd.dst),
                                                 GuaranteeOf(last.cmd.src)),
                               pos |-> last.cmd.pos]>>
          /\ last.status # "ok" => Added = <<>>
          /\ last.status = "ok" <=>
                /\ last.cmd.dst.tag # "Constant"
                /\ Owner(last.cmd.dst) \in DOMAIN last.before.invocations
                /\ \/ last.cmd.src.tag = "Constant"
                   \/ Owner(last.cmd.src) \in DOMAIN last.before.invocations

C16_Witness ==
    /\ last.cmd.kind = "Connect"
    /\ last.cmd.dst = ThisPort("o")
    /\ last.cmd.src = CompPort("x0", "out")
    /\ last.status = "ok"
    /\ Len(ctx.obligations) = 4
    /\ ctx.obligations[4].fact.tag = "Subset"

\* C17: an invocation that returns normally has added, in this order, one
\* obligation per constraint of the signature, resolved under the positional
\* binding of the abstract variables, and one subset obligation per input
\* port whose actual is not a constant, and only then is its name bound; one
\* that fails has added some of them in that order and binds nothing, so an
\* invocation that names its own port among its actuals fails after its
\* earlier obligations were added.
C17_InvokeObligations ==
    last.cmd.kind = "Invoke" =>
        LET want == ObligationsOf(last.cmd.bind)
            pos == last.cmd.pos
        IN
        /\ SubSeq(ctx.obligations, 1, Len(last.before.obligations))
              = last.before.obligations
        /\ last.cmd.bind \notin DOMAIN last.before.invocations
        /\ Len(Added) <= Len(want)
        /\ \A i \in DOMAIN Added : Added[i] = [fact |-> want[i], pos |-> pos]
        /\ last.status = "ok" =>
              /\ Len(Added) = Len(want)
              /\ DOMAIN ctx.invocations
                    = DOMAIN last.before.invocations \cup {last.cmd.bind}
        /\ last.status # "ok" => ctx.invocations = last.before.invocations
        /\ (last.cmd.bind = "x2" /\ last.cmd.comp \in DOMAIN ctx.instances)
              => (last.status = "error" /\ Len(Added) = 3)
        /\ last.cmd.comp \notin DOMAIN ctx.instances =>
              (last.status = "error" /\ Added = <<>>)

C17_Witness ==
    /\ last.cmd.bind = "x1"
    /\ last.status = "ok"
    /\ Len(ctx.obligations) = 7
    /\ "x1" \in DOMAIN ctx.invocations

\* Is the proposition of some obligation presented to the pass falsifiable?
SomeFalsifiable ==
    \E k \in DOMAIN PresentedFacts :
        PresentedFacts[k].prop \in FalsifiableProps[comp]

\* C25: with a solver that answers correctly and never unknown, the pass
\* does not pass silently over an unprovable obligation: if the negation of
\* some pending obligation is satisfiable the bulk check is sat, failure
\* analysis stores Some for at least one obligation and end raises the error
\* count by at least one; if every obligation is valid no diagnostic is
\* emitted.
C25_NoSilentPass ==
    bulk \in {"sat", "unsat"} =>
        /\ SomeFalsifiable =>
              /\ bulk = "sat"
              /\ pc \in {"ended", "done"} =>
                    /\ \E p \in DOMAIN checked : checked[p].some
                    /\ error_count >= errors_before + 1
                    /\ stderr_count >= errors_before + 1
        /\ ~SomeFalsifiable =>
              /\ bulk = "unsat"
              /\ diagnostics = <<>>
              /\ emitted = <<>>
              /\ error_count = errors_before

C25_Witness ==
    /\ pc = "ended"
    /\ bulk = "sat"
    /\ Len(PresentedFacts) = 2
    /\ \E k \in DOMAIN PresentedFacts :
          PresentedFacts[k].prop \notin FalsifiableProps[comp]
    /\ SomeFalsifiable
    /\ Len(emitted) = 1
    /\ error_count = errors_before + 1

\* C26: clear_data leaves error_count, show_models, sol_base, scoped and
\* func_map unchanged; the error count never decreases, and after_traversal
\* returns the number of diagnostics emitted over all components visited
\* since construction.
C26_ErrorCountKept ==
    [][/\ pc' = "cleared" =>
            /\ error_count' = error_count
            /\ show_models' = show_models
            /\ sol_base' = sol_base
            /\ scoped' = scoped
            /\ func_map' = func_map
       /\ error_count' >= error_count
       /\ ret'.called => ret'.val = stderr_count']_vars

C26_Witness ==
    /\ pc = "done"
    /\ visited = 2
    /\ errors_before = 1
    /\ Len(emitted) = 1
    /\ ret = [called |-> TRUE, some |-> TRUE, val |-> 2]

RECURSIVE Summands(_, _, _)
\* The summands bindings[e] + n of the summands (e, n) of an expression from
\* the i-th on, one after the other.
Summands(self, bindings, i) ==
    IF i > Len(self) THEN <<>>
    ELSE LET b == bindings[self[i].ev] IN
         [k \in DOMAIN b |-> [ev |-> b[k].ev, st |-> b[k].st + self[i].st]]
            \o Summands(self, bindings, i + 1)

\* Do two summands of the sequence have one event and different offsets?
Recurs(all) ==
    \E i \in DOMAIN all, j \in DOMAIN all :
        all[i].ev = all[j].ev /\ all[i].st # all[j].st

\* Are the events of the expression pairwise distinct?
DistinctEvents(idxs) ==
    \A i \in DOMAIN idxs, j \in DOMAIN idxs : idxs[i].ev = idxs[j].ev => i = j

\* C21: when resolve maps two summands of an expression to the same event
\* with different offsets, the result keeps both summands, in insertion
\* order; none is dropped or replaced.
C21_KeepsBothSummands ==
    last_op.name = "resolve" =>
        LET all == Summands(last_op.self, last_op.bindings, 1) IN
        Recurs(all) => last_op.res = all

\* C22: resolve(unit(e,0), {e -> y}) == y for every event e and nonempty y;
\* and resolving a nonempty x under the binding of each of its events e to
\* unit(e,0) gives x back, the same summands in the same order.
C22_ResolveIdentities ==
    last_op.name = "resolve" =>
        LET x == last_op.self
            b == last_op.bindings
        IN
        /\ (Len(x) = 1 /\ x[1].st = 0 /\ b[x[1].ev] # <<>>) =>
               last_op.res = b[x[1].ev]
        /\ (x # <<>> /\ \A i \in DOMAIN x :
                          b[x[i].ev] = <<[ev |-> x[i].ev, st |-> 0]>>) =>
               last_op.res = x

C22_Witness ==
    /\ last_op.name = "resolve"
    /\ Len(last_op.self) = 2
    /\ last_op.self[1].st = 2
    /\ last_op.self[2].st = 1
    /\ \A i \in DOMAIN last_op.self :
          last_op.bindings[last_op.self[i].ev] =
              <<[ev |-> last_op.self[i].ev, st |-> 0]>>
    /\ lhs = last_op.self

\* C23: x.increment(0) == x and x.increment(m).increment(n) ==
\* x.increment(m+n) for offsets within the integer range; increment changes
\* no event name, no summand count and no summand order.
C23_IncrementLaws ==
    last_op.name = "increment" =>
        LET x == last_op.self IN
        /\ lhs = last_op.res
        /\ (last_op.m + last_op.n = 0) => last_op.res = x
        /\ Len(lhs) = Len(x)
        /\ \A i \in DOMAIN x : lhs[i].ev = x[i].ev

C23_Witness ==
    /\ last_op.name = "increment"
    /\ last_op.m = 1
    /\ last_op.n = 1
    /\ Len(last_op.self) = 2
    /\ last_op.self[1].st = 0
    /\ lhs[1].st = 2
    /\ lhs[2].st = 2

\* C24: as_exact_offset gives Some((e, s, t)) iff the interval has an exact
\* range whose start and end are each one summand over the same event e,
\* with offsets s and t, and None otherwise (no exact range, an end with
\* several summands, ends over different events); the range from unit(e,s)
\* to unit(e,t) then equals the exact range.
C24_ExactOffset ==
    last_op.name = "as_exact_offset" =>
        LET exact == last_op.iv.exact
            r == last_op.res
            one == /\ exact.some
                   /\ Len(exact.start) = 1
                   /\ Len(exact.end) = 1
                   /\ exact.start[1].ev = exact.end[1].ev
        IN
        /\ r # <<>> <=> one
        /\ one => r = <<[ev |-> exact.start[1].ev, s |-> exact.start[1].st,
                         t |-> exact.end[1].st]>>
        /\ r # <<>> =>
              [some |-> TRUE,
               start |-> <<[ev |-> r[1].ev, st |-> r[1].s]>>,
               end |-> <<[ev |-> r[1].ev, st |-> r[1].t]>>] = exact

C24_Witness ==
    /\ last_op.name = "as_exact_offset"
    /\ last_op.res = <<[ev |-> "L", s |-> 1, t |-> 2]>>
    /\ lhs = <<[ev |-> "L", st |-> 1]>>
    /\ rhs = <<[ev |-> "L", st |-> 2]>>

\* C27: insert(e, n) on an expression that has a summand for e replaces its
\* offset by n, also when n is smaller, and leaves the number of summands
\* unchanged; after any sequence of unit, insert, increment and resolve the
\* events of an expression are pairwise distinct.
C27_InsertReplaces ==
    /\ DistinctEvents(lhs)
    /\ DistinctEvents(rhs)
    /\ (last_op.name = "insert" /\ last_op.ev \in events(last_op.self)) =>
          /\ Len(last_op.res) = Len(last_op.self)
          /\ \E i \in DOMAIN last_op.res : last_op.res[i].ev = last_op.ev
          /\ \A i \in DOMAIN last_op.res :
                last_op.res[i].ev = last_op.ev => last_op.res[i].st = last_op.n

C27_Witness ==
    /\ last_op.name = "insert"
    /\ last_op.self = <<[ev |-> "G", st |-> 2], [ev |-> "L", st |-> 1]>>
    /\ last_op.ev = "G"
    /\ last_op.n = 0
    /\ lhs = <<[ev |-> "L", st |-> 1], [ev |-> "G", st |-> 0]>>

====
